---- MODULE Spec2Model ----
(***************************************************************************)
(* Model of the JBGLangImprover editing pipeline:                          *)
(*   - JBGDocumentEditor._edit_docx and the helpers it calls               *)
(*     (_normalize_text, _diff_words, the difflib/thefuzz calls),          *)
(*   - the second pass over footnotes and text boxes,                      *)
(*   - JBGSuperDocumentEditor and JBGLanguageImprover.run.                 *)
(* A string is a sequence of one-character strings.                        *)
(***************************************************************************)
EXTENDS Integers, Sequences, FiniteSets, TLC

Max(p, q) == IF p > q THEN p ELSE q

SetMax(S) == CHOOSE x \in S : \A y \in S : y <= x

SetMin(S) == CHOOSE x \in S : \A y \in S : x <= y

\* Python's None (a missing key read with dict.get); no string is equal to it,
\* a string being a sequence of single characters
None == <<"None">>

(***************************************************************************)
(* Strings: whitespace, str.split, re.sub(r'\s+', ' ', s).strip(),         *)
(* the `in` operator and str.find                                          *)
(***************************************************************************)

\* the characters Python's \s and str.split() treat as whitespace
Whitespace == {" ", "\t", "\n"}

IsSpace(c) == c \in Whitespace

\* str.split(): the maximal runs of non-whitespace characters, in order
RECURSIVE SplitFrom(_, _, _, _)
SplitFrom(s, i, cur, acc) ==
    IF Len(acc) < 0 \/ Len(cur) < 0 THEN acc
    ELSE IF i > Len(s) THEN (IF cur = <<>> THEN acc ELSE Append(acc, cur))
    ELSE IF IsSpace(s[i])
         THEN SplitFrom(s, i + 1, <<>>, IF cur = <<>> THEN acc ELSE Append(acc, cur))
         ELSE SplitFrom(s, i + 1, Append(cur, s[i]), acc)

split(s) == SplitFrom(s, 1, <<>>, <<>>)

\* re.sub(r'\s+', ' ', s): every maximal whitespace run becomes one space
RECURSIVE CollapseFrom(_, _, _)
CollapseFrom(s, i, acc) ==
    IF Len(acc) < 0 THEN acc
    ELSE IF i > Len(s) THEN acc
    ELSE IF IsSpace(s[i])
         THEN CollapseFrom(s, i + 1,
                           IF i > 1 /\ IsSpace(s[i - 1]) THEN acc ELSE Append(acc, " "))
         ELSE CollapseFrom(s, i + 1, Append(acc, s[i]))

\* str.strip(): leading and trailing whitespace removed
strip(s) ==
    LET keep == {i \in 1..Len(s) : ~IsSpace(s[i])}
    IN  IF keep = {} THEN <<>> ELSE SubSeq(s, SetMin(keep), SetMax(keep))

normalize_text(text) == strip(CollapseFrom(text, 1, <<>>))

\* sub occurs in s at (1-based) position i
OccursAt(sub, s, i) ==
    /\ i >= 1
    /\ i + Len(sub) - 1 <= Len(s)
    /\ \A k \in 1..Len(sub) : s[i + k - 1] = sub[k]

\* Python's `sub in s`
Contains(sub, s) == \E i \in 1..(Len(s) + 1) : OccursAt(sub, s, i)

\* str.find, 1-based; 0 stands for Python's -1
first_or_zero(S) == IF S = {} THEN 0 ELSE SetMin(S)

find(s, sub) == first_or_zero({i \in 1..(Len(s) + 1) : OccursAt(sub, s, i)})

\* str.isdigit()
Digits == {"0", "1", "2", "3", "4", "5", "6", "7", "8", "9"}

isdigit(s) == Len(s) > 0 /\ \A i \in 1..Len(s) : s[i] \in Digits

RECURSIVE Concat(_, _, _)
Concat(ss, i, acc) ==
    IF Len(acc) < 0 THEN acc
    ELSE IF i > Len(ss) THEN acc
    ELSE Concat(ss, i + 1, acc \o ss[i])

\* "".join(ss)
join(ss) == Concat(ss, 1, <<>>)

(***************************************************************************)
(* The pattern  r"\s+".join(map(re.escape, old.split()))  and              *)
(* pattern.subn(new, baseline, count=1)                                    *)
(***************************************************************************)

\* The pattern matched at position i of s: the position after the match, 0 if
\* there is none. Words hold no whitespace, so \s+ between two words can only
\* take the whole whitespace run and the match at a given start is unique.
RECURSIVE PatternEnd(_, _, _, _)
PatternEnd(words, k, s, i) ==
    IF k > Len(words) THEN i
    ELSE IF ~OccursAt(words[k], s, i) THEN 0
    ELSE LET j == i + Len(words[k])
         IN  IF k = Len(words) THEN j
             ELSE LET rest == {p \in j..Len(s) : ~IsSpace(s[p])}
                      nxt == IF rest = {} THEN Len(s) + 1 ELSE SetMin(rest)
                  IN  IF nxt = j THEN 0 ELSE PatternEnd(words, k + 1, s, nxt)

\* the start positions at which the pattern matches
PatternStarts(words, s) == {i \in 1..(Len(s) + 1) : PatternEnd(words, 1, s, i) # 0}

\* pattern.subn(repl, s, count=1): <<result, number of substitutions>>
subn1_at(i, words, repl, s) ==
    IF i = 0 THEN <<s, 0>>
    ELSE <<SubSeq(s, 1, i - 1) \o repl \o SubSeq(s, PatternEnd(words, 1, s, i), Len(s)), 1>>

subn1(words, repl, s) == subn1_at(first_or_zero(PatternStarts(words, s)), words, repl, s)

(***************************************************************************)
(* difflib: SequenceMatcher and Differ.compare (ndiff), for sequences of   *)
(* any kind (word lists, and the characters of two words). Index ranges    *)
(* are 1-based and inclusive; alo > ahi is the empty range. Neither call   *)
(* site has junk elements (linejunk is None, words hold no blanks), and    *)
(* the autojunk heuristic needs 200 elements.                              *)
(***************************************************************************)

\* length of the common run that starts at a[i] and b[j]
RECURSIVE RunLen(_, _, _, _, _, _)
RunLen(a, i, ahi, b, j, bhi) ==
    IF i > ahi \/ j > bhi THEN 0
    ELSE IF a[i] # b[j] THEN 0
    ELSE 1 + RunLen(a, i + 1, ahi, b, j + 1, bhi)

\* SequenceMatcher.find_longest_match: the longest matching block; of those
\* the one that starts earliest in a, and of those the earliest in b
longest_first(longest, alo, blo) ==
    IF longest = {} THEN [i |-> alo, j |-> blo, size |-> 0]
    ELSE LET besti == SetMin({p[1] : p \in longest})
         IN  [i |-> besti,
              j |-> SetMin({p[2] : p \in {q \in longest : q[1] = besti}}),
              size |-> SetMax({p[3] : p \in longest})]

longest_of(blocks, alo, blo) ==
    longest_first({p \in blocks : \A q \in blocks : q[3] <= p[3]}, alo, blo)

find_longest_match(a, alo, ahi, b, blo, bhi) ==
    longest_of({<<i, j, RunLen(a, i, ahi, b, j, bhi)>> :
                   <<i, j>> \in {p \in (alo..ahi) \X (blo..bhi) : a[p[1]] = b[p[2]]}},
               alo, blo)

\* sum of the sizes of SequenceMatcher.get_matching_blocks
RECURSIVE Matches(_, _, _, _, _, _)
MatchesAround(m, a, alo, ahi, b, blo, bhi) ==
    IF m.size = 0 THEN 0
    ELSE m.size
         + (IF alo < m.i /\ blo < m.j
            THEN Matches(a, alo, m.i - 1, b, blo, m.j - 1) ELSE 0)
         + (IF m.i + m.size <= ahi /\ m.j + m.size <= bhi
            THEN Matches(a, m.i + m.size, ahi, b, m.j + m.size, bhi) ELSE 0)

Matches(a, alo, ahi, b, blo, bhi) ==
    MatchesAround(find_longest_match(a, alo, ahi, b, blo, bhi), a, alo, ahi, b, blo, bhi)

\* SequenceMatcher.ratio() = 2.0 * M / T as the pair <<2 * M, T>>
ratio(a, b) == <<2 * Matches(a, 1, Len(a), b, 1, Len(b)), Len(a) + Len(b)>>

\* r1 > r2 for two ratios (T = 0 gives ratio 1.0)
RatioGreater(r1, r2) ==
    LET n1 == IF r1[2] = 0 THEN 1 ELSE r1[1]
        d1 == IF r1[2] = 0 THEN 1 ELSE r1[2]
        n2 == IF r2[2] = 0 THEN 1 ELSE r2[1]
        d2 == IF r2[2] = 0 THEN 1 ELSE r2[2]
    IN  n1 * d2 > n2 * d1

\* Differ._dump: one line per element, all with the same tag
dump(tag, x, lo, hi) == [k \in 1..Max(hi - lo + 1, 0) |-> [tag |-> tag, word |-> x[lo + k - 1]]]

\* Differ._plain_replace: the shorter block first
plain_replace(a, alo, ahi, b, blo, bhi) ==
    IF bhi - blo < ahi - alo
    THEN dump("+", b, blo, bhi) \o dump("-", a, alo, ahi)
    ELSE dump("-", a, alo, ahi) \o dump("+", b, blo, bhi)

\* the initial best_ratio 0.74 and the cutoff 0.75 of Differ._fancy_replace
InitialBestRatio == <<74, 100>>

Cutoff == <<75, 100>>

\* The pair the double loop of _fancy_replace ends with: the non-identical
\* pair of the highest ratio above 0.74, the first such in loop order (j outer,
\* i inner); <<0, 0>> if there is none.
first_in_loop_order(top) ==
    IF top = {} THEN <<0, 0>>
    ELSE LET j == SetMin({p[2] : p \in top})
         IN  <<SetMin({p[1] : p \in {q \in top : q[2] = j}}), j>>

best_of(close) ==
    first_in_loop_order({p \in close : \A q \in close : ~RatioGreater(q[3], p[3])})

best_pair(a, alo, ahi, b, blo, bhi) ==
    best_of({q \in {<<p[1], p[2], ratio(a[p[1]], b[p[2]])>> :
                       p \in {r \in (alo..ahi) \X (blo..bhi) : a[r[1]] # b[r[2]]}} :
                RatioGreater(q[3], InitialBestRatio)})

\* eqi, eqj of _fancy_replace: the first identical pair in loop order
eq_pair(a, alo, ahi, b, blo, bhi) ==
    first_in_loop_order({p \in (alo..ahi) \X (blo..bhi) : a[p[1]] = b[p[2]]})

\* Differ._fancy_replace and Differ._fancy_helper. The "? " guide lines of
\* _qformat are left out: _diff_words drops every line whose tag is "?".
RECURSIVE fancy_replace(_, _, _, _, _, _)
fancy_helper(a, alo, ahi, b, blo, bhi) ==
    IF alo <= ahi
    THEN (IF blo <= bhi THEN fancy_replace(a, alo, ahi, b, blo, bhi)
                        ELSE dump("-", a, alo, ahi))
    ELSE IF blo <= bhi THEN dump("+", b, blo, bhi)
    ELSE <<>>

fancy_synch(best, identical, a, alo, ahi, b, blo, bhi) ==
    fancy_helper(a, alo, best[1] - 1, b, blo, best[2] - 1)
    \o (IF identical
        THEN <<[tag |-> " ", word |-> a[best[1]]]>>
        ELSE <<[tag |-> "-", word |-> a[best[1]]], [tag |-> "+", word |-> b[best[2]]]>>)
    \o fancy_helper(a, best[1] + 1, ahi, b, best[2] + 1, bhi)

fancy_choose(best, eq, a, alo, ahi, b, blo, bhi) ==
    IF best = <<0, 0>> \/ RatioGreater(Cutoff, ratio(a[best[1]], b[best[2]]))
    THEN (IF eq = <<0, 0>>
          THEN plain_replace(a, alo, ahi, b, blo, bhi)
          ELSE fancy_synch(eq, TRUE, a, alo, ahi, b, blo, bhi))
    ELSE fancy_synch(best, FALSE, a, alo, ahi, b, blo, bhi)

fancy_replace(a, alo, ahi, b, blo, bhi) ==
    fancy_choose(best_pair(a, alo, ahi, b, blo, bhi), eq_pair(a, alo, ahi, b, blo, bhi),
                 a, alo, ahi, b, blo, bhi)

\* Differ.compare over SequenceMatcher.get_opcodes: the matching blocks are
\* found by find_longest_match, then recursively to the left and to the right
\* of each block where both sides are non-empty; what lies between two blocks
\* is one replace, delete or insert opcode
RECURSIVE compare(_, _, _, _, _, _)
compare_around(m, a, alo, ahi, b, blo, bhi) ==
    IF m.size = 0 THEN fancy_replace(a, alo, ahi, b, blo, bhi)
    ELSE compare(a, alo, m.i - 1, b, blo, m.j - 1)
         \o dump(" ", a, m.i, m.i + m.size - 1)
         \o compare(a, m.i + m.size, ahi, b, m.j + m.size, bhi)

compare(a, alo, ahi, b, blo, bhi) ==
    IF alo > ahi /\ blo > bhi THEN <<>>
    ELSE IF alo > ahi THEN dump("+", b, blo, bhi)
    ELSE IF blo > bhi THEN dump("-", a, alo, ahi)
    ELSE compare_around(find_longest_match(a, alo, ahi, b, blo, bhi), a, alo, ahi, b, blo, bhi)

\* list(ndiff(a, b)) without the "? " lines
ndiff(a, b) == compare(a, 1, Len(a), b, 1, Len(b))

(***************************************************************************)
(* JBGDocumentEditor._diff_words                                           *)
(***************************************************************************)

\* the kinds of "-" and "+" lines taken for each other
KindOfSwapped(tag) == IF tag = " " THEN "text" ELSE IF tag = "-" THEN "insert" ELSE "strike"

\* the span kind _diff_words gives a line of the diff
KindOf(tag) == IF tag = " " THEN "text" ELSE IF tag = "-" THEN "strike" ELSE "insert"

\* a span that holds the bare word
SpanTextBare(word) == word

\* the text _diff_words gives a span: the word and one trailing space
SpanText(word) == word \o <<" ">>

spans_of(diff) ==
    [k \in 1..Len(diff) |-> [kind |-> KindOf(diff[k].tag), val |-> SpanText(diff[k].word)]]

diff_words(old, new) == spans_of(ndiff(split(old), split(new)))

(***************************************************************************)
(* thefuzz: fuzz.ratio                                                     *)
(***************************************************************************)

\* one row of the longest-common-subsequence table
RECURSIVE LcsRow(_, _, _, _)
LcsRow(prev, c, b, acc) ==
    IF Len(acc) > Len(b) THEN acc
    ELSE LcsRow(prev, c, b,
                Append(acc, IF c = b[Len(acc)]
                            THEN prev[Len(acc)] + 1
                            ELSE Max(prev[Len(acc) + 1], acc[Len(acc)])))

RECURSIVE LcsRows(_, _, _, _)
LcsRows(a, b, i, row) ==
    IF i > Len(a) \/ Len(row) = 0 THEN row[Len(b) + 1]
    ELSE LcsRows(a, b, i + 1, LcsRow(row, a[i], b, <<0>>))

\* length of a longest common subsequence
lcs(a, b) == LcsRows(a, b, 1, [j \in 1..(Len(b) + 1) |-> 0])

\* Python's round() of the fraction n / d: to the nearest integer, a tie to
\* the even one
round(n, d) ==
    LET q == n \div d
        r == n % d
    IN  IF 2 * r < d THEN q
        ELSE IF 2 * r > d THEN q + 1
        ELSE IF q % 2 = 0 THEN q ELSE q + 1

\* fuzz.ratio(s1, s2) = int(round(100 * (1 - indel_distance / (len1 + len2))))
\*                    = int(round(200 * LCS / (len1 + len2)))
fuzz_ratio(s1, s2) ==
    IF Len(s1) + Len(s2) = 0 THEN 100
    ELSE round(200 * lcs(s1, s2), Len(s1) + Len(s2))

TEXT_SIM_SCORE_THRESHOLD == 90

\* the comparison with <= in place of <: a score of exactly 90 is rejected
below_or_at_threshold(sim_score) == sim_score <= TEXT_SIM_SCORE_THRESHOLD

\* float(sim_score) < TEXT_SIM_SCORE_THRESHOLD
below_threshold(sim_score) == sim_score < TEXT_SIM_SCORE_THRESHOLD

(***************************************************************************)
(* Runs and paragraph-like units                                           *)
(***************************************************************************)

\* a run: its text, its colour ("" for none), strike-through, whether it
\* holds a w:footnoteReference, whether it holds a w:commentReference, and
\* the w:id of the reference it holds (0 for none)
Run(text, color, strike, ref) ==
    [text |-> text, color |-> color, strike |-> strike, ref |-> ref,
     commentReference |-> FALSE, id |-> 0]

PlainRun(text) == Run(text, "", FALSE, FALSE)

\* Paragraph.text: the texts of the runs, concatenated
RECURSIVE RunsText(_, _, _)
RunsText(runs, i, acc) ==
    IF Len(acc) < 0 THEN acc
    ELSE IF i > Len(runs) THEN acc
    ELSE RunsText(runs, i + 1, acc \o runs[i].text)

paragraph_text(runs) == RunsText(runs, 1, <<>>)

\* the run element.add_run(val) makes for a span, formatted by its kind
markup_run(kind, val) ==
    IF kind = "strike" THEN Run(val, "FF0000", TRUE, FALSE)
    ELSE IF kind = "insert" THEN Run(val, "008000", FALSE, FALSE)
    ELSE PlainRun(val)

\* the anchor decision of the paragraph branch: "exact" when the normalized old
\* text is a substring, else "fuzzy" or "no_match" by the similarity score
resolve(original_text, old) ==
    IF Contains(normalize_text(old), normalize_text(original_text)) THEN "exact"
    ELSE IF below_threshold(fuzz_ratio(normalize_text(old), normalize_text(original_text)))
         THEN "no_match"
         ELSE "fuzzy"

\* updated_text: baseline with the first occurrence of old replaced by new;
\* when old does not occur verbatim, the first match of the whitespace-tolerant
\* pattern is replaced, and without any match the whole text becomes new.
\* (The except branch needs re.compile or the replacement template to fail,
\* which takes a backslash in new; the strings here hold none.)
updated_text_fallback(sub, new) == IF sub[2] = 0 THEN new ELSE sub[1]

\* updated_text_at without the whitespace-tolerant pattern: old is replaced
\* only where it occurs verbatim, else the whole text becomes new
updated_text_at_verbatim_only(idx, baseline_text, old, new) ==
    IF idx # 0
    THEN SubSeq(baseline_text, 1, idx - 1) \o new
         \o SubSeq(baseline_text, idx + Len(old), Len(baseline_text))
    ELSE new

updated_text_at(idx, baseline_text, old, new) ==
    IF idx # 0
    THEN SubSeq(baseline_text, 1, idx - 1) \o new
         \o SubSeq(baseline_text, idx + Len(old), Len(baseline_text))
    ELSE updated_text_fallback(subn1(split(old), new, baseline_text), new)

updated_text_of(baseline_text, old, new) ==
    updated_text_at(find(baseline_text, old), baseline_text, old, new)

\* footnote_refs: the runs that hold a footnote reference, each with the number
\* of characters of paragraph text before it
RECURSIVE capture_refs(_, _, _, _)
capture_refs(runs, i, pos_cursor, acc) ==
    IF Len(acc) < 0 THEN acc
    ELSE IF i > Len(runs) THEN acc
    ELSE capture_refs(runs, i + 1, pos_cursor + Len(runs[i].text),
                      IF runs[i].ref
                      THEN Append(acc, [offset |-> pos_cursor, run |-> runs[i]])
                      ELSE acc)

\* flush_refs appending a reference only once the emitted characters have
\* passed its offset
RECURSIVE flush_refs_past_offset(_, _, _, _)
flush_refs_past_offset(refs, ref_i, baseline_emitted, out) ==
    IF Len(out) < 0 THEN [ref_i |-> ref_i, out |-> out]
    ELSE IF ref_i <= Len(refs) /\ refs[ref_i].offset < baseline_emitted
         THEN flush_refs_past_offset(refs, ref_i + 1, baseline_emitted, Append(out, refs[ref_i].run))
         ELSE [ref_i |-> ref_i, out |-> out]

\* the inner while loop: append the captured references whose offset is reached
RECURSIVE flush_refs(_, _, _, _)
flush_refs(refs, ref_i, baseline_emitted, out) ==
    IF Len(out) < 0 THEN [ref_i |-> ref_i, out |-> out]
    ELSE IF ref_i <= Len(refs) /\ refs[ref_i].offset <= baseline_emitted
         THEN flush_refs(refs, ref_i + 1, baseline_emitted, Append(out, refs[ref_i].run))
         ELSE [ref_i |-> ref_i, out |-> out]

\* the rebuild loop over the spans; st = [ref_i, out] after the previous span
RECURSIVE rebuild(_, _, _, _, _)
rebuild(diffed, k, refs, baseline_emitted, st) ==
    IF st.ref_i < 0 THEN st.out
    ELSE IF k > Len(diffed)
         THEN st.out \o [n \in 1..(Len(refs) - st.ref_i + 1) |-> refs[st.ref_i + n - 1].run]
         ELSE LET emitted == IF diffed[k].kind \in {"text", "strike"}
                             THEN baseline_emitted + Len(diffed[k].val)
                             ELSE baseline_emitted
              IN  rebuild(diffed, k + 1, refs, emitted,
                          flush_refs(refs, st.ref_i, emitted,
                                     Append(st.out, markup_run(diffed[k].kind, diffed[k].val))))

\* the runs of the unit after the change is applied
rebuild_with(footnote_refs, diffed) ==
    rebuild(diffed, 1, footnote_refs, 0, flush_refs(footnote_refs, 1, 0, <<>>))

rebuilt_runs(runs, diffed) == rebuild_with(capture_refs(runs, 1, 0, <<>>), diffed)

\* The paragraph branch of _edit_docx for one change whose old and new are
\* strings: the decision, the score, updated_text, the spans and the runs.
edit_apply(runs, how, updated, diffed) ==
    [outcome |-> how, updated_text |-> updated, diffed |-> diffed,
     runs |-> rebuilt_runs(runs, diffed)]

edit_diff(runs, how, original_text, updated) ==
    edit_apply(runs, how, updated, diff_words(original_text, updated))

edit_resolved(runs, how, original_text, old, new) ==
    IF how = "no_match"
    THEN [outcome |-> "no_match", updated_text |-> original_text,
          diffed |-> <<>>, runs |-> runs]
    ELSE edit_diff(runs, how, original_text, updated_text_of(original_text, old, new))

edit_text(runs, original_text, old, new) ==
    edit_resolved(runs, resolve(original_text, old), original_text, old, new)

edit_paragraph(runs, old, new) == edit_text(runs, paragraph_text(runs), old, new)

(***************************************************************************)
(* The change list: _edit_docx, the footnote and text-box passes           *)
(***************************************************************************)

\* bool(x) of a string or None
truthy(x) == x # None /\ x # <<>>

\* str(x) of a string or None
py_str(x) == IF x = None THEN <<"N", "o", "n", "e">> ELSE x

\* x or ""
or_empty(x) == IF truthy(x) THEN x ELSE <<>>

startswith(s, prefix) == Len(prefix) <= Len(s) /\ SubSeq(s, 1, Len(prefix)) = prefix

DigitChars == <<"0", "1", "2", "3", "4", "5", "6", "7", "8", "9">>

\* str(n) of the number of a unit (the documents here have fewer than ten of a kind)
str_int(n) == <<DigitChars[n + 1]>>

ParagraphPrefix == <<"p", "a", "r", "a", "g", "r", "a", "p", "h", "_">>

\* the cells of the first row of the first table
CellPrefix == <<"t", "a", "b", "l", "e", "_", "1", "_", "c", "e", "l", "l", "_", "1", "_">>

TextboxPrefix == <<"t", "e", "x", "t", "b", "o", "x", "_">>

FootnotePrefix == <<"f", "o", "o", "t", "n", "o", "t", "e", "_">>

FootnoteWord == <<"f", "o", "o", "t", "n", "o", "t", "e">>

TextboxWord == <<"t", "e", "x", "t", "b", "o", "x">>

\* _extract_footnotes: the footnotes that are no separators and hold text
RECURSIVE extract_footnotes(_, _, _)
extract_footnotes(footnotes, k, acc) ==
    IF Len(acc) < 0 THEN acc
    ELSE IF k > Len(footnotes) THEN acc
    ELSE extract_footnotes(footnotes, k + 1,
             IF footnotes[k].id \in {<<"-", "1">>, <<"0">>}
                \/ strip(paragraph_text(footnotes[k].runs)) = <<>>
             THEN acc ELSE Append(acc, k))

\* _extract_docx_elements: the elements by id. kind says what the editor can
\* tell of an element: a paragraph (it has text and runs), a _Cell, or a raw
\* XML element (text boxes and footnotes). The documents here have no header
\* and no footer paragraphs.
extract_docx_elements(doc) ==
    {[id |-> ParagraphPrefix \o str_int(n), kind |-> "paragraph", n |-> n] :
        n \in 1..Len(doc.paragraphs)}
    \cup {[id |-> CellPrefix \o str_int(n), kind |-> "cell", n |-> n] :
             n \in 1..Len(doc.cells)}
    \cup {[id |-> TextboxPrefix \o str_int(n), kind |-> "xml", n |-> n] :
             n \in 1..Len(doc.textboxes)}
    \cup {[id |-> FootnotePrefix \o str_int(n), kind |-> "xml",
           n |-> extract_footnotes(doc.footnotes, 1, <<>>)[n]] :
             n \in 1..Len(extract_footnotes(doc.footnotes, 1, <<>>))}

element_of(elements, element_id) == CHOOSE e \in elements : e.id = element_id

\* the attributes __init__ sets on a JBGDocumentEditor
InitAttributes ==
    {"filepath", "changes", "logger", "include_motivations", "footnote_changes",
     "textbox_changes", "ext", "edited_document", "nsmap"}

\* the parameters of JBGDocumentEditor.__init__ after self
InitParams == <<"filepath", "changes_path", "include_motivations", "logger">>

\* the number of arguments DocxSimpleMarkupEditor.apply_changes constructs the
\* JBGDocumentEditor with
SimpleMarkupCallArgs == 5

\* the number of arguments JBGLanguageImprover.run constructs the fallback
\* JBGDocumentEditor with
FallbackCallArgs == 4

\* a call of __init__ with nargs positional arguments binds
construct_ok(nargs) == nargs = Len(InitParams)

NoExc == [type |-> "none", idx |-> 0, at |-> "none"]

\* the runs a loop over diffed adds to an emptied paragraph
markup_runs(diffed) == [k \in 1..Len(diffed) |-> markup_run(diffed[k].kind, diffed[k].val)]

\* what the loop body does with one change: exc is the exception it raises
\* ("none" for none), reported says that a warning or an error was logged for
\* the change, queue names the list the change was appended to.
\* (Comments for motivations are added inside try/except and touch no run;
\* they are left out.)
Outcome(exc, doc, applied, reported, queue) ==
    [exc |-> exc, doc |-> doc, applied |-> applied, reported |-> reported, queue |-> queue]

\* the paragraph branch; _normalize_text(old) raises TypeError for old = None
change_paragraph(doc, n, r) ==
    IF r.outcome = "no_match"
    THEN Outcome("none", doc, FALSE, TRUE, "none")
    ELSE Outcome("none", [doc EXCEPT !.paragraphs[n] = r.runs], TRUE, FALSE, "none")

\* Step 1 of the table-cell branch: the first paragraph of the cell whose
\* normalized text holds the non-empty normalized old text, 0 for none
cell_exact_index(paras, normalized_old) ==
    first_or_zero({k \in 1..Len(paras) :
        /\ normalized_old # <<>>
        /\ Contains(normalized_old, normalize_text(paragraph_text(paras[k])))})

\* "\n".join(p.text.strip() for p in element.paragraphs)
RECURSIVE cell_text(_, _, _)
cell_text(paras, k, acc) ==
    IF Len(acc) < 0 THEN acc
    ELSE IF k > Len(paras) THEN acc
    ELSE cell_text(paras, k + 1,
                   (IF k = 1 THEN acc ELSE acc \o <<"\n">>) \o strip(paragraph_text(paras[k])))

\* Steps 1 and 2 of the table-cell branch: cell_handled, whether the
\* short/numeric warning was logged, and the paragraphs of the cell after it
edit_cell(paras, k, normalized_old, diffed) ==
    IF k # 0
    THEN [cell_handled |-> TRUE, warned |-> FALSE,
          paras |-> [paras EXCEPT ![k] = markup_runs(diffed)]]
    ELSE IF Len(paras) = 0
    THEN [cell_handled |-> FALSE, warned |-> FALSE, paras |-> paras]
    ELSE IF isdigit(normalized_old) \/ Len(normalized_old) < 4
    THEN [cell_handled |-> FALSE, warned |-> TRUE, paras |-> paras]
    ELSE IF fuzz_ratio(normalized_old, normalize_text(cell_text(paras, 1, <<>>)))
            >= TEXT_SIM_SCORE_THRESHOLD
    THEN [cell_handled |-> TRUE, warned |-> FALSE,
          paras |-> [paras EXCEPT ![1] = markup_runs(diffed)]]
    ELSE [cell_handled |-> FALSE, warned |-> FALSE, paras |-> paras]

\* Step 3 of the table-cell branch: the failure is logged as an error and
\* appended to self.failed_changes, an attribute __init__ never sets
change_cell(doc, n, c) ==
    IF c.cell_handled
    THEN Outcome("none", [doc EXCEPT !.cells[n] = c.paras], TRUE, FALSE, "none")
    ELSE IF "failed_changes" \in InitAttributes
    THEN Outcome("none", doc, FALSE, TRUE, "none")
    ELSE Outcome("AttributeError", doc, FALSE, TRUE, "none")

\* the body of the loop over self.changes for one change
process_element(doc, element, change) ==
    IF element.kind = "paragraph"
    THEN IF change.old = None
         THEN Outcome("TypeError", doc, FALSE, FALSE, "none")
         ELSE change_paragraph(doc, element.n,
                  edit_paragraph(doc.paragraphs[element.n], change.old, change.new))
    ELSE IF element.kind = "cell"
    THEN IF change.old = None
         THEN Outcome("TypeError", doc, FALSE, FALSE, "none")
         ELSE change_cell(doc, element.n,
                  edit_cell(doc.cells[element.n],
                            cell_exact_index(doc.cells[element.n], normalize_text(change.old)),
                            normalize_text(change.old),
                            diff_words(change.old, change.new)))
    ELSE IF element.kind = "xml" /\ startswith(change.element_id, FootnoteWord)
    THEN Outcome("none", doc, FALSE, FALSE, "footnote")
    ELSE IF element.kind = "xml" /\ startswith(change.element_id, TextboxWord)
    THEN Outcome("none", doc, FALSE, FALSE, "textbox")
    ELSE Outcome("none", doc, FALSE, TRUE, "none")

process_change(doc, elements, change) ==
    IF ~truthy(change.element_id) \/ change.element_id \notin {e.id : e \in elements}
    THEN Outcome("none", doc, FALSE, TRUE, "none")
    ELSE process_element(doc, element_of(elements, change.element_id), change)

\* the final reporting loop: a change whose element_id is not in
\* applied_changes and is no footnote and no text box is logged as not applied;
\* element_id.startswith raises AttributeError when element_id is None
RECURSIVE final_reporting(_, _, _, _)
final_reporting(changes, k, applied_changes, reported) ==
    IF reported = {0} THEN [exc |-> NoExc, reported |-> reported]
    ELSE IF k > Len(changes) THEN [exc |-> NoExc, reported |-> reported]
    ELSE IF changes[k].element_id \in applied_changes
    THEN final_reporting(changes, k + 1, applied_changes, reported)
    ELSE IF changes[k].element_id = None
    THEN [exc |-> [type |-> "AttributeError", idx |-> k, at |-> "final"],
          reported |-> reported]
    ELSE IF startswith(changes[k].element_id, FootnoteWord)
            \/ startswith(changes[k].element_id, TextboxWord)
    THEN final_reporting(changes, k + 1, applied_changes, reported)
    ELSE final_reporting(changes, k + 1, applied_changes, reported \cup {k})

\* the entry the loop appends to self.footnote_changes or self.textbox_changes
\* (idx is the position of the change in the list, kept to tell the entries apart)
queued(idx, change) ==
    [idx |-> idx, element_id |-> change.element_id, footnote_id |-> change.footnote_id,
     old |-> change.old, new |-> change.new]

\* the footnote with this w:id, 0 for none
footnote_index(footnotes, footnote_id) ==
    first_or_zero({k \in 1..Len(footnotes) : footnotes[k].id = footnote_id})

\* the first run of the footnote that holds the footnote mark, kept as it is
preserved_ref_run(runs) ==
    IF \E k \in 1..Len(runs) : runs[k].ref
    THEN <<runs[SetMin({k \in 1..Len(runs) : runs[k].ref})]>>
    ELSE <<>>

\* the rebuilt footnote: the mark, a blank, the whole old text struck out in
\* red and the whole new text in green
footnote_runs(runs, new_text) ==
    preserved_ref_run(runs)
    \o <<PlainRun(<<" ">>),
         Run(paragraph_text(runs), "FF0000", TRUE, FALSE),
         Run(new_text, "008000", FALSE, FALSE)>>

\* the loop of _edit_footnote_texts over self.footnote_changes;
\* st = [footnotes, applied, reported]
RECURSIVE edit_footnote_texts(_, _, _)
footnote_step(st, ch, fn) ==
    IF strip(py_str(ch.footnote_id)) = <<>> \/ fn = 0
    THEN [st EXCEPT !.reported = @ \cup {ch.idx}]
    ELSE [st EXCEPT !.footnotes[fn].runs = footnote_runs(@, or_empty(ch.new)),
                    !.applied = @ \cup {ch.idx}]

edit_footnote_texts(footnote_changes, k, st) ==
    IF st.applied = {0} THEN st
    ELSE IF k > Len(footnote_changes) THEN st
    ELSE edit_footnote_texts(footnote_changes, k + 1,
             footnote_step(st, footnote_changes[k],
                 footnote_index(st.footnotes, strip(py_str(footnote_changes[k].footnote_id)))))

\* _normalize_textbox_text: all whitespace removed (and the en and em dashes
\* made hyphens: the texts here are ASCII and hold none)
RECURSIVE remove_whitespace(_, _, _)
remove_whitespace(s, i, acc) ==
    IF Len(acc) < 0 THEN acc
    ELSE IF i > Len(s) THEN acc
    ELSE remove_whitespace(s, i + 1,
             IF IsSpace(s[i]) THEN acc
             ELSE Append(acc, s[i]))

normalize_textbox_text(text) == IF text = <<>> THEN <<>> ELSE strip(remove_whitespace(text, 1, <<>>))

\* the first text box whose normalized text holds norm_old, 0 for none
textbox_index(textboxes, norm_old) ==
    first_or_zero({k \in 1..Len(textboxes) :
        Contains(norm_old, normalize_textbox_text(paragraph_text(textboxes[k])))})

\* the loop of _edit_textbox_texts over self.textbox_changes: a change whose
\* normalized old text is empty is passed over without a log line; the runs of
\* the box found are replaced by the spans of _diff_words(old, new) (the
\* buffered Deleted and Inserted spans are added in the order they came);
\* st = [textboxes, applied, reported]
RECURSIVE edit_textbox_texts(_, _, _)
textbox_step(st, ch, norm_old) ==
    IF norm_old = <<>> THEN st
    ELSE IF textbox_index(st.textboxes, norm_old) = 0
    THEN [st EXCEPT !.reported = @ \cup {ch.idx}]
    ELSE [st EXCEPT !.textboxes[textbox_index(st.textboxes, norm_old)] =
                        markup_runs(diff_words(or_empty(ch.old), or_empty(ch.new))),
                    !.applied = @ \cup {ch.idx}]

edit_textbox_texts(textbox_changes, k, st) ==
    IF st.applied = {0} THEN st
    ELSE IF k > Len(textbox_changes) THEN st
    ELSE edit_textbox_texts(textbox_changes, k + 1,
             textbox_step(st, textbox_changes[k],
                          normalize_textbox_text(or_empty(textbox_changes[k].old))))

(***************************************************************************)
(* State                                                                   *)
(***************************************************************************)

VARIABLES
    phase,       \* the single-change specification: "para", "diff", "edited", "diffed"
    unit_runs,   \* the runs of the paragraph-like unit under edit
    runs0,       \* the runs the unit had before the change
    old,         \* the change: text to replace
    new,         \* the change: replacement text
    res,         \* what the operation computed: outcome, updated_text, diffed
    pc,               \* where JBGLanguageImprover.run is: "run", "edit", "edited",
                      \* "fallback", "footnotes", "textboxes", "save", "done", "raised"
    route,            \* the editor at work: "none", "super" or "fallback"
    docx_mode,        \* "tracked" or "simple"
    package_ok,       \* the input is a package python-docx can open
    changes,          \* self.changes: the change list
    change_i,         \* the position of the loop over self.changes
    doc,              \* the document under edit
    applied_changes,  \* the local set applied_changes of _edit_docx (element ids)
    applied_idx,      \* the positions of the changes that changed the document
    reported,         \* the positions of the changes a warning or error was logged for
    footnote_changes, \* self.footnote_changes
    textbox_changes,  \* self.textbox_changes
    exc,              \* the last exception raised: type, position of the change, place
    stages,           \* the stages that ran, in order
    delivered,        \* the kind of document run returns: "none", "markup", "tracked"
    super_failed,     \* JBGSuperDocumentEditor raised and run took the except branch
    content_failed,   \* a stage failed on the content of the package
    stage,            \* the specifications of one stage on one package: where the stage is
    pkg,              \* the package the stage works on
    pkg0,             \* the package the stage was given
    out               \* what the stage returned or reported

textVars == <<phase, unit_runs, runs0, old, new, res>>

batchVars ==
    <<pc, route, docx_mode, package_ok, changes, change_i, doc, applied_changes,
      applied_idx, reported, footnote_changes, textbox_changes, exc, stages,
      delivered, super_failed, content_failed>>

pkgVars == <<stage, pkg, pkg0, out>>

vars == <<textVars, batchVars, pkgVars>>

\* the variables of the one-stage specifications under the other specifications
PkgIdle ==
    /\ stage = "off"
    /\ pkg = <<>>
    /\ pkg0 = <<>>
    /\ out = <<>>

\* the input document of the change-list specification: one paragraph, one
\* table cell with one paragraph, one text box and one footnote (w:id 1) whose
\* first run holds the footnote mark
InputDoc ==
    [paragraphs |-> <<<<PlainRun(<<"a", "b", " ", "c", "d">>)>>>>,
     cells |-> <<<<<<PlainRun(<<"a", "b", "c", "d", " ", "e", "f", "g", "h", "i">>)>>>>>>,
     textboxes |-> <<<<PlainRun(<<"a", "b", " ", "c", "d">>)>>>>,
     footnotes |-> <<[id |-> <<"1">>,
                      runs |-> <<Run(<<>>, "", FALSE, TRUE), PlainRun(<<" ", "a", "b", " ", "c", "d">>)>>]>>]

\* the variables of the change-list specification under SpecText, where one change is applied to one unit
BatchIdle ==
    /\ pc = "off"
    /\ route = "none"
    /\ docx_mode = "simple"
    /\ package_ok = TRUE
    /\ changes = <<>>
    /\ change_i = 0
    /\ doc = InputDoc
    /\ applied_changes = {}
    /\ applied_idx = {}
    /\ reported = {}
    /\ footnote_changes = <<>>
    /\ textbox_changes = <<>>
    /\ exc = NoExc
    /\ stages = <<>>
    /\ delivered = "none"
    /\ super_failed = FALSE
    /\ content_failed = FALSE

(***************************************************************************)
(* One change on one paragraph-like unit, and _diff_words on its own       *)
(***************************************************************************)

\* all strings over the alphabet A of length at most n
RECURSIVE Strings(_, _)
Strings(A, n) ==
    IF n = 0 THEN {<<>>}
    ELSE LET S == Strings(A, n - 1)
         IN  S \cup {Append(t, c) : t \in {u \in S : Len(u) = n - 1}, c \in A}

\* all sequences over the set W of length at most n
RECURSIVE Lists(_, _)
Lists(W, n) ==
    IF n = 0 THEN {<<>>}
    ELSE LET S == Lists(W, n - 1)
         IN  S \cup {Append(t, w) : t \in {u \in S : Len(u) = n - 1}, w \in W}

MaxTextLen == 6

MaxOldLen == 3

MaxNewLen == 2

MaxWords == 3

\* the words joined by sep, with lead before the first and trail after the last
RECURSIVE JoinWords(_, _, _, _)
JoinWords(ws, k, sep, acc) ==
    IF Len(acc) < 0 THEN acc
    ELSE IF k > Len(ws) THEN acc
    ELSE JoinWords(ws, k + 1, sep, (IF k = 1 THEN acc ELSE acc \o sep) \o ws[k])

\* words that are close to each other (ratio above 0.74) and words that are not
Vocabulary == {<<"a", "b">>, <<"a", "b", "c", "d">>, <<"a", "b", "c", "d", "e">>}

\* the texts _diff_words is tried on: up to MaxWords words, separated by single
\* blanks, or by wider whitespace with whitespace around
DiffTexts ==
    {JoinWords(ws, 1, <<" ">>, <<>>) : ws \in Lists(Vocabulary, MaxWords)}
    \cup {<<"\t">> \o JoinWords(ws, 1, <<" ", "\n">>, <<>>) \o <<" ">> :
             ws \in Lists(Vocabulary, MaxWords)}

\* Scenario A of the specification
ScenarioA ==
    [text |-> <<"M", "y", "n", "d", "i", "g", "h", "e", "t", "e", "n", " ", "s", "k", "a", "l", "l", " ", "b", "e", "s", "l", "u", "t", "a", ".">>,
     old |-> <<"s", "k", "a", "l", "l", " ", "b", "e", "s", "l", "u", "t", "a">>,
     new |-> <<"s", "k", "a", " ", "b", "e", "s", "l", "u", "t", "a">>]

\* a change whose old text scores exactly 90 against the unit text
Score90 ==
    [text |-> <<"s", "k", "a", "l", "l", " ", "g", "o", "r", "a">>,
     old |-> <<"s", "k", "a", "l", " ", " ", "g", "o", "r", "a", ".">>,
     new |-> <<"s", "k", "a", " ", "g", "o", "r", "a">>]

\* Scenario B: a unit text of 50 characters and an old text that scores 92
Score92 ==
    [text |-> <<"M", "y", "n", "d", "i", "g", "h", "e", "t", "e", "n", " ", "s", "k", "a", "l", "l", " ", "b", "e", "s", "l", "u", "t", "a", " ", "i", " ", "d", "e", "t", "t", "a", " ", "a", "r", "e", "n", "d", "e", " ", "i", " ", "m", "o", "r", "g", "o", "n", ".">>,
     old |-> <<"M", "y", "n", "d", "i", "g", "h", "e", "t", "e", "m", " ", "s", "k", "a", "l", "!", " ", "b", "e", "s", "l", "u", "t", "q", " ", "i", " ", "d", "e", "t", "t", "a", " ", "a", "r", "e", "n", "d", "e", " ", "i", " ", "m", "o", "r", "g", "o", "n", ",">>,
     new |-> <<"M", "y", "n", "d", "i", "g", "h", "e", "t", "e", "n", " ", "s", "k", "a", " ", "b", "e", "s", "l", "u", "t", "a", " ", "i", " ", "m", "o", "r", "g", "o", "n", ".">>]

\* a change whose old text scores 89
Score89 ==
    [text |-> <<"s", "k", "a", "l", "l", " ", "g", "e", "s">>,
     old |-> <<"s", "k", "a", "l", " ", "g", "e", "s", ".">>,
     new |-> <<"s", "k", "a", " ", "g", "e", "s">>]

\* Scenario C: an old text that scores 60
Score60 ==
    [text |-> <<"a", "b", "c", "d", "e">>,
     old |-> <<"a", "b", "c", "y", "z">>,
     new |-> <<"a", "b">>]

Scenarios == {ScenarioA, Score90, Score92, Score89, Score60}

\* the (unit text, old, new) triples the paragraph branch is tried on
ParaInputs ==
    {[text |-> t, old |-> o, new |-> n] :
        t \in Strings({"a", " "}, MaxTextLen),
        o \in Strings({"a", " "}, MaxOldLen),
        n \in Strings({"b", " "}, MaxNewLen)}
    \cup Scenarios

NoResult == [outcome |-> "pending", updated_text |-> <<>>, diffed |-> <<>>]

\* A unit holds its text in one run here.
InitText ==
    /\ BatchIdle
    /\ PkgIdle
    /\ \/ \E c \in ParaInputs :
             /\ phase = "para"
             /\ unit_runs = <<PlainRun(c.text)>>
             /\ runs0 = <<PlainRun(c.text)>>
             /\ old = c.old
             /\ new = c.new
             /\ res = NoResult
       \/ \E o \in DiffTexts, n \in DiffTexts :
             /\ phase = "diff"
             /\ unit_runs = <<>>
             /\ runs0 = <<>>
             /\ old = o
             /\ new = n
             /\ res = NoResult

\* the paragraph branch of _edit_docx for the change (old, new)
EditParagraph ==
    /\ phase = "para"
    /\ \E r \in {edit_paragraph(unit_runs, old, new)} :
          /\ res' = [outcome |-> r.outcome, updated_text |-> r.updated_text,
                     diffed |-> r.diffed]
          /\ unit_runs' = r.runs
    /\ phase' = "edited"
    /\ UNCHANGED <<runs0, old, new, batchVars, pkgVars>>

\* _diff_words(old, new), as the table-cell and text-box paths call it
DiffWords ==
    /\ phase = "diff"
    /\ res' = [outcome |-> "diffed", updated_text |-> <<>>, diffed |-> diff_words(old, new)]
    /\ phase' = "diffed"
    /\ UNCHANGED <<unit_runs, runs0, old, new, batchVars, pkgVars>>

NextText == EditParagraph \/ DiffWords

SpecText == InitText /\ [][NextText]_vars

(***************************************************************************)
(* A change list on a document: JBGLanguageImprover.run from the point     *)
(* where the change list is there                                          *)
(***************************************************************************)

MaxChanges == 2

\* the element ids of the changes: missing, unknown, and the four units
ElementIds ==
    {None, ParagraphPrefix \o str_int(9), ParagraphPrefix \o str_int(1),
     CellPrefix \o str_int(1), TextboxPrefix \o str_int(1), FootnotePrefix \o str_int(1)}

\* the old texts of the changes: missing, empty, found in every unit (two of
\* them), found in none, and one that scores 90 against the text of the table
\* cell
OldTexts ==
    {None, <<>>, <<"a", "b">>, <<"c", "d">>, <<"x", "y", "z", "w">>,
     <<"a", "b", "c", "d", " ", "e", "f", "g", "h", "x">>}

NewText == <<"e", "f">>

Candidates ==
    {[element_id |-> e, old |-> o, new |-> NewText, footnote_id |-> None] :
        e \in ElementIds, o \in OldTexts}
    \cup {[element_id |-> FootnotePrefix \o str_int(1), old |-> o, new |-> NewText,
           footnote_id |-> <<"1">>] : o \in OldTexts}

\* the variables of the single-change specification under Spec, where a change list is applied
TextIdle ==
    /\ phase = "off"
    /\ unit_runs = <<>>
    /\ runs0 = <<>>
    /\ old = <<>>
    /\ new = <<>>
    /\ res = NoResult

Init ==
    /\ TextIdle
    /\ PkgIdle
    /\ pc = "run"
    /\ route = "none"
    /\ docx_mode \in {"tracked", "simple"}
    /\ package_ok \in BOOLEAN
    /\ changes \in Lists(Candidates, MaxChanges)
    /\ change_i = 0
    /\ doc = InputDoc
    /\ applied_changes = {}
    /\ applied_idx = {}
    /\ reported = {}
    /\ footnote_changes = <<>>
    /\ textbox_changes = <<>>
    /\ exc = NoExc
    /\ stages = <<>>
    /\ delivered = "none"
    /\ super_failed = FALSE
    /\ content_failed = FALSE

\* where an exception raised while an editor applies the changes goes: one of
\* JBGSuperDocumentEditor is caught by run, which turns to the fallback editor;
\* one of the fallback editor is logged by apply_changes, raised again and
\* leaves run
raised_in(r) == IF r = "super" THEN "fallback" ELSE "raised"

\* run, the try block: JBGSuperDocumentEditor is built (the input copied) and
\* apply_changes builds the JBGDocumentEditor it delegates to and starts
\* _edit_docx, which opens the package
TrySuperEditor ==
    /\ pc = "run"
    /\ IF ~construct_ok(SimpleMarkupCallArgs)
       THEN /\ exc' = [type |-> "TypeError", idx |-> 0, at |-> "init"]
            /\ pc' = raised_in("super")
            /\ super_failed' = TRUE
            /\ UNCHANGED <<route, change_i, content_failed>>
       ELSE IF ~package_ok
       THEN /\ exc' = [type |-> "PackageNotFoundError", idx |-> 0, at |-> "open"]
            /\ pc' = raised_in("super")
            /\ super_failed' = TRUE
            /\ content_failed' = TRUE
            /\ UNCHANGED <<route, change_i>>
       ELSE /\ route' = "super"
            /\ change_i' = 1
            /\ pc' = "edit"
            /\ UNCHANGED <<exc, super_failed, content_failed>>
    /\ UNCHANGED <<textVars, pkgVars, docx_mode, package_ok, changes, doc, applied_changes,
                   applied_idx, footnote_changes, textbox_changes, reported, stages,
                   delivered>>

\* run, the except branch: a JBGDocumentEditor on the input path; its
\* apply_changes starts _edit_docx, which opens the package
Fallback ==
    /\ pc = "fallback"
    /\ route' = "fallback"
    /\ IF ~construct_ok(FallbackCallArgs)
       THEN /\ exc' = [type |-> "TypeError", idx |-> 0, at |-> "init"]
            /\ pc' = "raised"
            /\ UNCHANGED <<change_i, content_failed>>
       ELSE IF ~package_ok
       THEN /\ exc' = [type |-> "PackageNotFoundError", idx |-> 0, at |-> "open"]
            /\ pc' = "raised"
            /\ content_failed' = TRUE
            /\ UNCHANGED change_i
       ELSE /\ change_i' = 1
            /\ pc' = "edit"
            /\ UNCHANGED <<exc, content_failed>>
    /\ doc' = InputDoc
    /\ applied_changes' = {}
    /\ applied_idx' = {}
    /\ footnote_changes' = <<>>
    /\ textbox_changes' = <<>>
    /\ UNCHANGED <<textVars, pkgVars, docx_mode, package_ok, changes, reported, stages, delivered,
                   super_failed>>

\* one pass of the loop of _edit_docx over self.changes
ProcessChange ==
    /\ pc = "edit"
    /\ change_i <= Len(changes)
    /\ \E r \in {process_change(doc, extract_docx_elements(doc), changes[change_i])} :
          /\ doc' = r.doc
          /\ applied_changes' = IF r.applied
                                THEN applied_changes \cup {changes[change_i].element_id}
                                ELSE applied_changes
          /\ applied_idx' = IF r.applied THEN applied_idx \cup {change_i} ELSE applied_idx
          /\ reported' = IF r.reported THEN reported \cup {change_i} ELSE reported
          /\ footnote_changes' = IF r.queue = "footnote"
                                 THEN Append(footnote_changes, queued(change_i, changes[change_i]))
                                 ELSE footnote_changes
          /\ textbox_changes' = IF r.queue = "textbox"
                                THEN Append(textbox_changes, queued(change_i, changes[change_i]))
                                ELSE textbox_changes
          /\ IF r.exc = "none"
             THEN /\ change_i' = change_i + 1
                  /\ UNCHANGED <<pc, exc, super_failed>>
             ELSE /\ exc' = [type |-> r.exc, idx |-> change_i, at |-> "loop"]
                  /\ pc' = raised_in(route)
                  /\ super_failed' = (super_failed \/ route = "super")
                  /\ UNCHANGED change_i
    /\ UNCHANGED <<textVars, pkgVars, route, docx_mode, package_ok, changes, stages, delivered,
                   content_failed>>

\* the final reporting loop of _edit_docx, and its return
FinalReporting ==
    /\ pc = "edit"
    /\ change_i > Len(changes)
    /\ \E r \in {final_reporting(changes, 1, applied_changes, reported)} :
          /\ reported' = r.reported
          /\ exc' = (IF r.exc.type = "none" THEN exc ELSE r.exc)
          /\ IF r.exc.type = "none"
             THEN /\ pc' = "edited"
                  /\ stages' = Append(stages, "markup")
                  /\ UNCHANGED super_failed
             ELSE /\ pc' = raised_in(route)
                  /\ super_failed' = (super_failed \/ route = "super")
                  /\ UNCHANGED stages
    /\ UNCHANGED <<textVars, pkgVars, route, docx_mode, package_ok, changes, change_i, doc,
                   applied_changes, applied_idx, footnote_changes, textbox_changes,
                   delivered, content_failed>>

\* what follows _edit_docx. The fallback editor saves the intermediate file
\* and goes on to the footnote and text-box passes. DocxSimpleMarkupEditor
\* returns the document, which run saves; DocxTrackedChangesEditor converts
\* the markup to revisions, validates, repairs when the validation reported
\* errors and validates again (the converter, the validator and the repairer
\* work on the content of the package: whether they fail, and whether the
\* validator reports errors, is drawn here).
AfterEdit ==
    /\ pc = "edited"
    /\ \E convert_ok \in BOOLEAN, errors_pre \in BOOLEAN, repair_ok \in BOOLEAN :
          IF route = "fallback"
          THEN /\ pc' = "footnotes"
               /\ UNCHANGED <<stages, delivered, exc, super_failed, content_failed>>
          ELSE IF docx_mode # "tracked"
          THEN /\ pc' = "done"
               /\ delivered' = "markup"
               /\ UNCHANGED <<stages, exc, super_failed, content_failed>>
          ELSE IF ~convert_ok
          THEN /\ pc' = raised_in(route)
               /\ exc' = [type |-> "EditorProcessingException", idx |-> 0, at |-> "convert"]
               /\ stages' = Append(stages, "convert")
               /\ super_failed' = TRUE
               /\ content_failed' = TRUE
               /\ UNCHANGED delivered
          ELSE IF errors_pre /\ ~repair_ok
          THEN /\ pc' = raised_in(route)
               /\ exc' = [type |-> "Exception", idx |-> 0, at |-> "repair"]
               /\ stages' = stages \o <<"convert", "validate", "repair">>
               /\ super_failed' = TRUE
               /\ content_failed' = TRUE
               /\ UNCHANGED delivered
          ELSE /\ pc' = "done"
               /\ delivered' = "tracked"
               /\ stages' = stages \o (IF errors_pre
                                       THEN <<"convert", "validate", "repair", "validate">>
                                       ELSE <<"convert", "validate">>)
               /\ UNCHANGED <<exc, super_failed, content_failed>>
    /\ UNCHANGED <<textVars, pkgVars, route, docx_mode, package_ok, changes, change_i, doc,
                   applied_changes, applied_idx, reported, footnote_changes,
                   textbox_changes>>

\* Step 3 of _apply_changes_docx: _edit_footnote_texts when footnote changes
\* are queued
EditFootnotes ==
    /\ pc = "footnotes"
    /\ \E st \in {edit_footnote_texts(footnote_changes, 1,
                      [footnotes |-> doc.footnotes, applied |-> applied_idx,
                       reported |-> reported])} :
          /\ doc' = [doc EXCEPT !.footnotes = st.footnotes]
          /\ applied_idx' = st.applied
          /\ reported' = st.reported
    /\ pc' = "textboxes"
    /\ UNCHANGED <<textVars, pkgVars, route, docx_mode, package_ok, changes, change_i,
                   applied_changes, footnote_changes, textbox_changes, exc, stages,
                   delivered, super_failed, content_failed>>

\* Step 4 of _apply_changes_docx: _edit_textbox_texts when text-box changes
\* are queued
EditTextboxes ==
    /\ pc = "textboxes"
    /\ \E st \in {edit_textbox_texts(textbox_changes, 1,
                      [textboxes |-> doc.textboxes, applied |-> applied_idx,
                       reported |-> reported])} :
          /\ doc' = [doc EXCEPT !.textboxes = st.textboxes]
          /\ applied_idx' = st.applied
          /\ reported' = st.reported
    /\ pc' = "save"
    /\ UNCHANGED <<textVars, pkgVars, route, docx_mode, package_ok, changes, change_i,
                   applied_changes, footnote_changes, textbox_changes, exc, stages,
                   delivered, super_failed, content_failed>>

\* run, the rest of the except branch: the document is saved and
\* AutoDocxRepairer.repair is tried; when it raises, the saved document is
\* returned as it is
SaveAndRepair ==
    /\ pc = "save"
    /\ \E repair_ok \in BOOLEAN :
          /\ content_failed' = (content_failed \/ ~repair_ok)
          /\ stages' = Append(stages, IF repair_ok THEN "repair" ELSE "repair_failed")
    /\ delivered' = "markup"
    /\ pc' = "done"
    /\ UNCHANGED <<textVars, pkgVars, route, docx_mode, package_ok, changes, change_i, doc,
                   applied_changes, applied_idx, reported, footnote_changes,
                   textbox_changes, exc, super_failed>>

Next ==
    \/ TrySuperEditor
    \/ Fallback
    \/ ProcessChange
    \/ FinalReporting
    \/ AfterEdit
    \/ EditFootnotes
    \/ EditTextboxes
    \/ SaveAndRepair

Spec == Init /\ [][Next]_vars

(***************************************************************************)
(* Properties of the single change (SpecText)                              *)
(***************************************************************************)

text0 == paragraph_text(runs0)

\* the change is one of the named scenarios
CaseIs(c) == text0 = c.text /\ old = c.old /\ new = c.new

\* text with the segment [i, e) replaced by n
Replaced(text, i, e, n) == SubSeq(text, 1, i - 1) \o n \o SubSeq(text, e, Len(text))

\* the segment [i, e) of text has the words of o
TolerantSegment(text, i, e, o) == split(SubSeq(text, i, e - 1)) = split(o)

\* the segment [i, e) is an occurrence of o up to whitespace: it has the words
\* of o and neither starts nor ends with whitespace
TolerantOccurrence(text, i, e, o) ==
    /\ TolerantSegment(text, i, e, o)
    /\ e > i => ~IsSpace(text[i]) /\ ~IsSpace(text[e - 1])

TolerantStarts(text, o) ==
    {i \in 1..(Len(text) + 1) : \E e \in i..(Len(text) + 1) : TolerantOccurrence(text, i, e, o)}

VerbatimStarts(text, o) == {i \in 1..(Len(text) + 1) : OccursAt(o, text, i)}

NormalizedSubstring == Contains(normalize_text(old), normalize_text(text0))

\* the segment [i, e) is old with each run of whitespace of any positive length
RunTolerantOccurrence(text, i, e, o) ==
    CollapseFrom(SubSeq(text, i, e - 1), 1, <<>>) = CollapseFrom(o, 1, <<>>)

RunTolerantStarts(text, o) ==
    {i \in 1..(Len(text) + 1) : \E e \in i..(Len(text) + 1) : RunTolerantOccurrence(text, i, e, o)}

C5_FuzzyThreshold ==
    (phase = "edited" /\ ~NormalizedSubstring) =>
        /\ fuzz_ratio(normalize_text(old), normalize_text(text0)) >= 90 =>
              res.outcome = "fuzzy" /\ res.updated_text = new
        /\ fuzz_ratio(normalize_text(old), normalize_text(text0)) < 90 =>
              res.outcome = "no_match" /\ unit_runs = runs0
        /\ CaseIs(Score90) => res.outcome = "fuzzy"
        /\ CaseIs(Score92) => res.outcome = "fuzzy"
        /\ CaseIs(Score60) => res.outcome = "no_match"

\* C5 witness: the change that scores exactly 90 is accepted
C5_Witness ==
    /\ phase = "edited"
    /\ CaseIs(Score90)
    /\ ~NormalizedSubstring
    /\ fuzz_ratio(normalize_text(old), normalize_text(text0)) = 90
    /\ res.outcome = "fuzzy"
    /\ unit_runs # runs0

\* the texts of the spans that are not Deleted, concatenated in order
RECURSIVE KeptText(_, _, _)
KeptText(spans, k, acc) ==
    IF Len(acc) < 0 THEN acc
    ELSE IF k > Len(spans) THEN acc
    ELSE KeptText(spans, k + 1, IF spans[k].kind = "strike" THEN acc ELSE acc \o spans[k].val)

\* the words, each followed by one space
RECURSIVE SpacedWords(_, _, _)
SpacedWords(ws, k, acc) ==
    IF Len(acc) < 0 THEN acc
    ELSE IF k > Len(ws) THEN acc
    ELSE SpacedWords(ws, k + 1, acc \o ws[k] \o <<" ">>)

\* C6 as stated: the texts of the spans of _diff_words(old, new), the Deleted
\* spans left out, concatenated in order, are new character for character.
C6_KeptSpansAreNew ==
    phase = "diffed" => KeptText(res.diffed, 1, <<>>) = new

\* C6 amended: the texts of the spans of _diff_words(old, new), the Deleted
\* spans left out, concatenated in order, are the whitespace-separated words of
\* new, in order, each followed by a single space; this is new up to
\* whitespace, not character for character.
C6_KeptSpansAreWordsOfNew ==
    phase = "diffed" =>
        /\ KeptText(res.diffed, 1, <<>>) = SpacedWords(split(new), 1, <<>>)
        /\ normalize_text(KeptText(res.diffed, 1, <<>>)) = normalize_text(new)

\* C6 witness: a diff with unchanged, deleted and inserted spans of a new text
\* of several words
C6_Witness ==
    /\ phase = "diffed"
    /\ Len(split(new)) >= 2
    /\ \E k \in 1..Len(res.diffed) : res.diffed[k].kind = "text"
    /\ \E k \in 1..Len(res.diffed) : res.diffed[k].kind = "strike"
    /\ \E k \in 1..Len(res.diffed) : res.diffed[k].kind = "insert"

\* C7 as stated: for the unit text "Myndigheten skall besluta." and the change
\* "skall besluta" -> "ska besluta" the spans are Unchanged "Myndigheten ",
\* Deleted "skall besluta", Inserted "ska besluta", Unchanged ".".
C7_ScenarioASpansAsStated ==
    (phase = "edited" /\ CaseIs(ScenarioA)) =>
        res.diffed = <<[kind |-> "text", val |-> <<"M", "y", "n", "d", "i", "g", "h", "e", "t", "e", "n", " ">>],
                       [kind |-> "strike", val |-> <<"s", "k", "a", "l", "l", " ", "b", "e", "s", "l", "u", "t", "a">>],
                       [kind |-> "insert", val |-> <<"s", "k", "a", " ", "b", "e", "s", "l", "u", "t", "a">>],
                       [kind |-> "text", val |-> <<".">>]>>

\* C7 amended: for the unit text "Myndigheten skall besluta." and the change
\* "skall besluta" -> "ska besluta" the spans are word by word, each with one
\* trailing space: Unchanged "Myndigheten ", Deleted "skall ", Inserted "ska ",
\* Unchanged "besluta. ".
C7_ScenarioASpansByWord ==
    (phase = "edited" /\ CaseIs(ScenarioA)) =>
        /\ res.outcome = "exact"
        /\ res.diffed = <<[kind |-> "text", val |-> <<"M", "y", "n", "d", "i", "g", "h", "e", "t", "e", "n", " ">>],
                          [kind |-> "strike", val |-> <<"s", "k", "a", "l", "l", " ">>],
                          [kind |-> "insert", val |-> <<"s", "k", "a", " ">>],
                          [kind |-> "text", val |-> <<"b", "e", "s", "l", "u", "t", "a", ".", " ">>]>>

\* C7 witness: Scenario A has been applied
C7_Witness ==
    /\ phase = "edited"
    /\ CaseIs(ScenarioA)
    /\ Len(res.diffed) = 4
    /\ Len(unit_runs) = 4

(***************************************************************************)
(* Properties of the change list (Spec)                                    *)
(***************************************************************************)

\* the change has an element_id and an old text
WellFormed(ch) == ch.element_id # None /\ ch.old # None

\* C1: a failure confined to one change record (no anchor found, score below
\* the threshold, unsupported unit) never aborts the batch: when the package
\* opens and every record has its element_id and its old text, _edit_docx
\* raises nothing, neither in the loop over the changes nor in the final
\* reporting loop, so every later record is still processed.
C1_RecordFailureNeverAborts ==
    (package_ok /\ \A k \in 1..Len(changes) : WellFormed(changes[k]))
        => exc.at \notin {"loop", "final"}

\* C2: every change record that ends up not applied has a warning or an error
\* logged for it by the time the pipeline has delivered its document; none is
\* dropped without a report.
C2_NotAppliedIsReported ==
    pc = "done" => \A k \in 1..Len(changes) : k \in applied_idx \/ k \in reported

\* C3: a change record that lacks element_id or lacks old is skipped with a
\* warning and is not fatal: _edit_docx raises nothing at such a record,
\* neither in the loop over the changes nor in the final reporting loop, and
\* a record without element_id that the loop has passed has its warning.
C3_MalformedRecordNotFatal ==
    /\ exc.at \in {"loop", "final"} => WellFormed(changes[exc.idx])
    /\ \A k \in 1..Len(changes) :
          (pc = "edit" /\ k < change_i /\ changes[k].element_id = None) => k \in reported

\* C8: in tracked mode the stages run in the order markup, conversion,
\* validation/repair, and when no stage fails on the content of the package
\* the document delivered carries native revisions, not plain markup.
C8_TrackedDeliversRevisions ==
    (docx_mode = "tracked" /\ pc = "done" /\ ~content_failed) =>
        /\ delivered = "tracked"
        /\ stages \in {<<"markup", "convert", "validate">>,
                       <<"markup", "convert", "validate", "repair", "validate">>}

\* C9: when tracked mode is requested and the tracked editor fails on a
\* package that opens, run does not fail: it falls back to the plain-markup
\* editor on the original input and returns a plain-markup document.
C9_TrackedFailureFallsBack ==
    (docx_mode = "tracked" /\ super_failed /\ package_ok) =>
        /\ pc # "raised"
        /\ pc = "done" => delivered = "markup"

\* C10: the editing part of run always delivers an output document: the only
\* failure that surfaces to the caller is a package that cannot be opened.
C10_OnlyUnrecoverablePackageSurfaces ==
    pc = "raised" => ~package_ok

(***************************************************************************)
(* DocxTrackedChangesEditor._convert_markup_to_tracked                     *)
(***************************************************************************)

\* An element of word/document.xml below a paragraph: a run (tag "r") or a
\* revision wrapper (tag "ins" or "del") with its children in kids. rPr says
\* that the run has run properties; color is the w:val of its w:color ("" for
\* none); strike that it has a w:strike; t is the text of its first w:t (None
\* for a run without one); delText the text of its w:delText;
\* commentReference the id of the comment reference it holds (0 for none);
\* id the w:id of a wrapper (0 for a revision that was in the input).
XNode(tag, rPr, color, strike, t, delText, commentReference, id, kids) ==
    [tag |-> tag, rPr |-> rPr, color |-> color, strike |-> strike, t |-> t,
     delText |-> delText, commentReference |-> commentReference, id |-> id, kids |-> kids]

XRun(rPr, color, strike, t, commentReference) ==
    XNode("r", rPr, color, strike, t, None, commentReference, 0, <<>>)

XWrapper(tag, id, kids) == XNode(tag, FALSE, "", FALSE, None, None, 0, id, kids)

is_red_strike(run) == run.rPr /\ run.color = "FF0000" /\ run.strike

is_green_insert(run) == run.rPr /\ run.color = "008000"

\* the characters after which the converter adds no blank (the typographic
\* closing quotes of the source are outside the ASCII texts here)
NoBlankAfter == {" ", ".", ",", ";", ":", "!", "?"}

\* the text the wrapper's run gets: a blank is added to a non-empty text that
\* does not end with one of the characters above
wrapper_text(text) ==
    IF Len(text) > 0 /\ text[Len(text)] \notin NoBlankAfter THEN text \o <<" ">> ELSE text

\* run_copy: a new run that holds only the text, as w:delText or as w:t
run_copy(run) ==
    IF is_red_strike(run)
    THEN XNode("r", FALSE, "", FALSE, None, wrapper_text(run.t), 0, 0, <<>>)
    ELSE XNode("r", FALSE, "", FALSE, wrapper_text(run.t), None, 0, 0, <<>>)

\* a converter that wraps every marked run in w:ins
wrapper_of_always_ins(run, tracked_id) ==
    XWrapper("ins", tracked_id, <<run_copy(run)>>)

\* the wrapper that takes the place of a marked run (author, date and the
\* randomly chosen rsid attributes are left out)
wrapper_of(run, tracked_id) ==
    XWrapper(IF is_red_strike(run) THEN "del" ELSE "ins", tracked_id, <<run_copy(run)>>)

\* the run the converter inserts after the wrapper for the comment reference
comment_ref_run(run) == XRun(FALSE, "", FALSE, None, run.commentReference)

\* the body of the loop over //w:r for one run: the elements that stand in the
\* place of the run afterwards
converts(run) == (is_red_strike(run) \/ is_green_insert(run)) /\ run.t # None

converted_run(run, tracked_id, include_motivations) ==
    IF ~converts(run) THEN <<run>>
    ELSE IF run.commentReference # 0 /\ include_motivations
    THEN <<wrapper_of(run, tracked_id), comment_ref_run(run)>>
    ELSE <<wrapper_of(run, tracked_id)>>

\* the loop over //w:r in document order over the children of one parent;
\* st = [out, tracked_id]. A wrapper of the input is a parent of runs itself.
RECURSIVE convert_nodes(_, _, _, _)
convert_kids(node, inner) == [node EXCEPT !.kids = inner.out]

convert_nodes(nodes, k, include_motivations, st) ==
    IF st.tracked_id < 0 THEN st
    ELSE IF k > Len(nodes) THEN st
    ELSE IF nodes[k].tag = "r"
    THEN convert_nodes(nodes, k + 1, include_motivations,
             [out |-> st.out \o converted_run(nodes[k], st.tracked_id, include_motivations),
              tracked_id |-> IF converts(nodes[k]) THEN st.tracked_id + 1 ELSE st.tracked_id])
    ELSE convert_nodes(nodes, k + 1, include_motivations,
             [out |-> Append(st.out,
                        convert_kids(nodes[k],
                            convert_nodes(nodes[k].kids, 1, include_motivations,
                                          [out |-> <<>>, tracked_id |-> st.tracked_id]))),
              tracked_id |-> convert_nodes(nodes[k].kids, 1, include_motivations,
                                 [out |-> <<>>, tracked_id |-> st.tracked_id]).tracked_id])

\* the loop over the paragraphs of the body; st = [out, tracked_id]
RECURSIVE convert_body(_, _, _, _)
convert_para(st, inner) == [out |-> Append(st.out, inner.out), tracked_id |-> inner.tracked_id]

convert_body(body, k, include_motivations, st) ==
    IF st.tracked_id < 0 THEN st
    ELSE IF k > Len(body) THEN st
    ELSE convert_body(body, k + 1, include_motivations,
             convert_para(st, convert_nodes(body[k], 1, include_motivations,
                                            [out |-> <<>>, tracked_id |-> st.tracked_id])))

\* _clean_xml_tree: run properties without children are removed
RECURSIVE clean_nodes(_)
clean_nodes(nodes) ==
    [k \in 1..Len(nodes) |->
        IF nodes[k].tag = "r"
        THEN [nodes[k] EXCEPT !.rPr = @ /\ (nodes[k].color # "" \/ nodes[k].strike)]
        ELSE [nodes[k] EXCEPT !.kids = clean_nodes(@)]]

clean_xml_tree(body) == [k \in 1..Len(body) |-> clean_nodes(body[k])]

\* _fix_or_inject_settings_xml on the revision flag of word/settings.xml:
\* "absent" (also when the part is missing), "on" for <w:trackRevisions/>,
\* "off" for <w:trackRevisions w:val="false"/>. The element is added when
\* none is there; one that is there is left as it is.
fix_or_inject_settings_xml(trackRevisions) ==
    IF trackRevisions = "absent" THEN "on" ELSE trackRevisions

\* _convert_markup_to_tracked on the body and the settings of the package
convert_markup_to_tracked(package, include_motivations) ==
    [package EXCEPT
        !.body = clean_xml_tree(convert_body(@, 1, include_motivations,
                                             [out |-> <<>>, tracked_id |-> 1]).out),
        !.trackRevisions = fix_or_inject_settings_xml(@)]

MaxNodes == 3

RedStrikeRun == XRun(TRUE, "FF0000", TRUE, <<"a", "b">>, 0)

GreenRun == XRun(TRUE, "008000", FALSE, <<"c", "d", " ">>, 0)

\* the runs of the documents the converter is tried on: plain, struck out in
\* red, green, green with a comment reference, red without strike, struck out
\* in red without a w:t, and with empty run properties
ConvRuns ==
    {XRun(FALSE, "", FALSE, <<"x", " ">>, 0),
     RedStrikeRun,
     GreenRun,
     XRun(TRUE, "008000", FALSE, <<"e", ".">>, 7),
     XRun(TRUE, "FF0000", FALSE, <<"y">>, 0),
     XRun(TRUE, "FF0000", TRUE, None, 0),
     XRun(TRUE, "", FALSE, <<"z">>, 0)}

\* the children of a paragraph: a run, or a revision of the input around a
\* plain, a struck-out or a green run
ConvNodes ==
    ConvRuns
    \cup {XWrapper(w, 0, <<r>>) :
             w \in {"ins", "del"},
             r \in {XRun(FALSE, "", FALSE, <<"x", " ">>, 0), RedStrikeRun, GreenRun}}

\* the packages: one paragraph of up to MaxNodes children, and the flag
ConvPackages ==
    {[body |-> <<nodes>>, trackRevisions |-> f, include_motivations |-> m] :
        nodes \in Lists(ConvNodes, MaxNodes),
        f \in {"absent", "on", "off"},
        m \in BOOLEAN}

\* the outcome of the conversion: it returned a path, and the directories made
\* by mkdtemp that are still there
NoOut == [ok |-> TRUE, scratch |-> {}]

InitConvert ==
    /\ TextIdle
    /\ BatchIdle
    /\ stage = "interim"
    /\ pkg \in ConvPackages
    /\ pkg0 = pkg
    /\ out = NoOut

\* _convert_markup_to_tracked; nothing in it looks at the nesting of the
\* wrappers, so it returns the output path whenever the parts can be parsed.
\* The output path lies in temp_dir, which is not removed; the backup_dir of
\* _merge_missing_parts is removed by its last statement.
ConvertMarkupToTracked ==
    /\ stage = "interim"
    /\ pkg' = convert_markup_to_tracked(pkg, pkg.include_motivations)
    /\ stage' = "tracked"
    /\ out' = [ok |-> TRUE, scratch |-> out.scratch \cup {"temp_dir"}]
    /\ UNCHANGED <<textVars, batchVars, pkg0>>

\* DocxInternalValidator.validate on the converted package: the errors are
\* about parts, relationships, styles and comments, none about nesting
ValidateConverted ==
    /\ stage = "tracked"
    /\ stage' = "validated"
    /\ UNCHANGED <<textVars, batchVars, pkg, pkg0, out>>

NextConvert == ConvertMarkupToTracked \/ ValidateConverted

SpecConvert == InitConvert /\ [][NextConvert]_vars

(***************************************************************************)
(* Properties of the conversion (SpecConvert)                              *)
(***************************************************************************)

\* a wrapper with this tag is among the nodes or below them
RECURSIVE HasWrapper(_, _)
HasWrapper(nodes, tag) ==
    \E k \in 1..Len(nodes) :
        nodes[k].tag = tag \/ (nodes[k].tag # "r" /\ HasWrapper(nodes[k].kids, tag))

\* some w:del holds a w:ins or some w:ins holds a w:del
RECURSIVE Nested(_)
Nested(nodes) ==
    \E k \in 1..Len(nodes) :
        /\ nodes[k].tag # "r"
        /\ \/ HasWrapper(nodes[k].kids, IF nodes[k].tag = "del" THEN "ins" ELSE "del")
           \/ Nested(nodes[k].kids)

\* C11: after the conversion no w:del holds a w:ins and no w:ins holds a w:del,
\* also for a document that had revisions around marked-up runs: the
\* conversion either fails or its output has no such nesting.
C11_NoCrossNestingAfterConversion ==
    stage \in {"tracked", "validated"} =>
        \/ ~out.ok
        \/ \A k \in 1..Len(pkg.body) : ~Nested(pkg.body[k])

\* marked for deletion: red and struck out; marked for insertion: green
DeletionMarked(node) == node.tag = "r" /\ node.color = "FF0000" /\ node.strike

InsertionMarked(node) == node.tag = "r" /\ node.color = "008000"

HoldsText(node) == node.t # None

\* the number of runs among the nodes and below them that are marked as the
\* tag says ("del" or "ins"); with_text counts only the runs that hold a w:t
RECURSIVE MarkedRuns(_, _, _)
MarkedRuns(nodes, tag, with_text) ==
    IF Len(nodes) = 0 THEN 0
    ELSE MarkedRuns(Tail(nodes), tag, with_text)
         + (IF Head(nodes).tag # "r" THEN MarkedRuns(Head(nodes).kids, tag, with_text)
            ELSE IF /\ (IF tag = "del" THEN DeletionMarked(Head(nodes))
                                       ELSE InsertionMarked(Head(nodes)))
                    /\ (with_text => HoldsText(Head(nodes)))
                 THEN 1 ELSE 0)

\* the number of wrappers with the tag that the conversion made (id > 0)
RECURSIVE NewWrappers(_, _)
NewWrappers(nodes, tag) ==
    IF Len(nodes) = 0 THEN 0
    ELSE NewWrappers(Tail(nodes), tag)
         + (IF Head(nodes).tag = "r" THEN 0
            ELSE NewWrappers(Head(nodes).kids, tag)
                 + (IF Head(nodes).tag = tag /\ Head(nodes).id > 0 THEN 1 ELSE 0))

\* a run the conversion inserted for a comment reference
IsRefRun(node) == node.tag = "r" /\ node.t = None /\ node.delText = None /\ node.commentReference # 0

WithoutRefRuns(nodes) == SelectSeq(nodes, LAMBDA n : ~IsRefRun(n))

IsNewWrapper(node, tag) ==
    /\ node.tag = tag
    /\ node.id > 0
    /\ Len(node.kids) = 1
    /\ node.kids[1].tag = "r"

\* the output nodes stand where the input nodes stood (the inserted comment
\* reference runs aside): a wrapper made by the conversion in the place of
\* each marked run, every other run in its own place, and the same below the
\* revisions of the input
RECURSIVE SamePositions(_, _, _)
SamePositionAt(before, after, with_text) ==
    IF before.tag # "r"
    THEN after.tag = before.tag /\ after.id = 0 /\ SamePositions(before.kids, after.kids, with_text)
    ELSE IF DeletionMarked(before) /\ (with_text => HoldsText(before))
    THEN IsNewWrapper(after, "del")
    ELSE IF InsertionMarked(before) /\ (with_text => HoldsText(before))
    THEN IsNewWrapper(after, "ins")
    ELSE after.tag = "r" /\ after.t = before.t /\ after.color = before.color

SamePositions(before, after, with_text) ==
    /\ Len(WithoutRefRuns(after)) = Len(before)
    /\ \A k \in 1..Len(before) :
           SamePositionAt(before[k], WithoutRefRuns(after)[k], with_text)

ConversionAsStated(with_text) ==
    /\ Len(pkg.body) = Len(pkg0.body)
    /\ \A p \in 1..Len(pkg0.body) :
           /\ NewWrappers(pkg.body[p], "del") = MarkedRuns(pkg0.body[p], "del", with_text)
           /\ NewWrappers(pkg.body[p], "ins") = MarkedRuns(pkg0.body[p], "ins", with_text)
           /\ SamePositions(pkg0.body[p], pkg.body[p], with_text)
    /\ pkg.trackRevisions # "absent"

InfraParts == {"commentsExtended.xml", "commentsIds.xml", "people.xml"}

InfraOverrides == {"/word/commentsExtended.xml", "/word/commentsIds.xml", "/word/people.xml"}

REQUIRED_STYLES ==
    {"Normal", "DefaultParagraphFont", "TableNormal", "CommentText", "InsertedText", "DeletedText"}

\* "comments.xml" in target, for the targets of the packages here
names_comments(target) == target \in {"comments.xml", "/word/comments.xml"}

\* _add_minimal_comments_to_dir: an empty w:comments
add_minimal_comments_to_dir(p) == [p EXCEPT !.comments = [state |-> "ok", ids |-> {}]]

\* _add_comment_infra_files: each of the three files is written when missing
add_comment_infra_files(p) == [p EXCEPT !.infra = InfraParts]

\* append the targets of the sequence that are not among the existing ones
RECURSIVE append_missing(_, _, _)
append_missing(targets, required, existing) ==
    IF Len(required) = 0 THEN targets
    ELSE append_missing(IF Head(required) \in existing THEN targets
                        ELSE Append(targets, Head(required)),
                        Tail(required), existing)

\* _ensure_extended_comment_relationships
ensure_extended_comment_relationships(p) ==
    IF ~p.rels.present THEN p
    ELSE [p EXCEPT !.rels.targets =
             append_missing(@, <<"commentsExtended.xml", "commentsIds.xml", "people.xml">>,
                            {p.rels.targets[k] : k \in 1..Len(p.rels.targets)})]

\* _ensure_content_type_overrides
ensure_content_type_overrides(p) ==
    IF ~p.overrides.present THEN p
    ELSE [p EXCEPT !.overrides.parts = @ \cup InfraOverrides]

\* a repairer that removes every comment reference of the body
remove_all_comment_refs(p) == [p EXCEPT !.refs = <<>>]

\* _remove_orphan_comment_refs: a reference whose id is not the id of a
\* comment is removed; any exception is logged and swallowed
remove_orphan_comment_refs(p) ==
    IF p.comments.state # "ok" THEN p
    ELSE [p EXCEPT !.refs = SelectSeq(@, LAMBDA id : id \in p.comments.ids)]

\* _ensure_all_comment_ids_exist: a dummy comment for a reference without one
\* needs datetime.now(timezone.utc), and the module imports neither name
all_comment_ids_exist_raises(p) ==
    /\ p.comments.state = "ok"
    /\ \E k \in 1..Len(p.refs) : p.refs[k] \notin p.comments.ids

\* _ensure_comment_relationship: the Relationship is added when no Target is
\* "comments.xml"; the element added has no namespace, so the second test,
\* which looks at the elements of the relationships namespace, does not see
\* it and adds another one unless a Target of the file names comments.xml.
\* Written to the file and read again, the added elements are in the
\* namespace of the root.
ensure_comment_relationship(p) ==
    IF ~p.rels.present THEN p
    ELSE [p EXCEPT !.rels.targets =
             @ \o (IF \E k \in 1..Len(@) : @[k] = "comments.xml"
                   THEN <<>> ELSE <<"comments.xml">>)
               \o (IF \E k \in 1..Len(@) : names_comments(@[k])
                   THEN <<>> ELSE <<"comments.xml">>)]

\* _enable_track_revisions
enable_track_revisions(p) ==
    IF ~p.settings.present THEN p
    ELSE [p EXCEPT !.settings.trackRevisions = TRUE]

\* _ensure_rsid_definitions: settings without w:rsids get a pool of
\* random.randint(8, 15) entries, and the module does not import random
rsid_definitions_raises(p) == p.settings.present /\ ~p.settings.rsids

\* _ensure_styles_definitions: a missing styles.xml is created, and each
\* required style that is missing is appended
ensure_styles_definitions(p) ==
    [p EXCEPT !.styles = [present |-> TRUE,
                          ids |-> (IF @.present THEN @.ids ELSE {}) \cup REQUIRED_STYLES]]

\* the steps of repair between the comments.xml test and the rsid step
repair_steps(p) ==
    ensure_comment_relationship(
        remove_orphan_comment_refs(
            ensure_content_type_overrides(
                ensure_extended_comment_relationships(
                    add_comment_infra_files(p)))))

\* DocxXmlRepairer.repair: [exc, pkg, scratch]. pkg is the package at the
\* output path (the input when nothing was written); scratch says that the
\* directory made by mkdtemp is still there when repair is left.
Repaired(e, p, scratch) == [exc |-> e, pkg |-> p, scratch |-> scratch]

repair_from(p0, p) ==
    IF all_comment_ids_exist_raises(repair_steps(p))
    THEN Repaired("NameError", p0, TRUE)
    ELSE IF rsid_definitions_raises(enable_track_revisions(repair_steps(p)))
    THEN Repaired("NameError", p0, TRUE)
    ELSE Repaired("none",
                  ensure_styles_definitions(enable_track_revisions(repair_steps(p))),
                  FALSE)

repair(p) ==
    IF ~p.zip_ok THEN Repaired("Exception", p, TRUE)
    ELSE IF p.comments.state = "absent" THEN repair_from(p, add_minimal_comments_to_dir(p))
    ELSE IF p.comments.state = "malformed" THEN Repaired("AttributeError", p, TRUE)
    ELSE repair_from(p, p)

\* ref.get("w:id") and c.get("w:id"): the attribute is w:id in the
\* wordprocessingml namespace, and a lookup by the literal name "w:id" finds
\* no attribute
get_w_id(id) == None

\* DocxInternalValidator._validate_comments: the errors it appends, as the
\* set of the positions of the references reported
validate_comments(p) ==
    IF p.comments.state = "absent" THEN {}
    ELSE {k \in 1..Len(p.refs) :
             get_w_id(p.refs[k]) \notin {get_w_id(id) : id \in p.comments.ids}}

\* _validate_relationships
RequiredTargets == {"styles.xml", "settings.xml", "comments.xml", "fontTable.xml", "webSettings.xml"}

names_target(target, required) ==
    \/ target = required
    \/ target = "/word/comments.xml" /\ required = "comments.xml"

validate_relationships(p) ==
    IF ~p.rels.present THEN {"document.xml.rels"}
    ELSE {t \in RequiredTargets :
             ~\E k \in 1..Len(p.rels.targets) : names_target(p.rels.targets[k], t)}

\* s.get("w:styleId") finds no attribute either; "None" stands for the None
\* it returns, which STYLE_TRANSLATION_MAP.get(sid, sid) leaves as it is
get_w_styleId(id) == "None"

\* _validate_styles
validate_styles(p) ==
    IF ~p.styles.present THEN {"styles.xml"}
    ELSE {s \in REQUIRED_STYLES : s \notin {get_w_styleId(id) : id \in p.styles.ids}}

\* _validate_settings
validate_settings(p) ==
    IF ~p.settings.present THEN {"settings.xml"}
    ELSE IF ~p.settings.trackRevisions THEN {"trackRevisions"}
    ELSE {}

\* DocxInternalValidator.validate: [exc, errors, scratch]. The scratch
\* directory is removed by the last statement, which an exception skips.
validate(p) ==
    IF ~p.zip_ok
    THEN [exc |-> "BadZipFile", comment_errors |-> {}, other_errors |-> {}, scratch |-> TRUE]
    ELSE IF p.comments.state = "malformed"
    THEN [exc |-> "XMLSyntaxError", comment_errors |-> {}, other_errors |-> {}, scratch |-> TRUE]
    ELSE [exc |-> "none",
          comment_errors |-> validate_comments(p),
          other_errors |-> validate_relationships(p) \cup validate_styles(p)
                           \cup validate_settings(p),
          scratch |-> FALSE]

MaxCommentId == 2

MaxRefs == 2

CommentIds == 1..MaxCommentId

BodyText == <<"a", "b", " ", "c", "d">>

RepairComments ==
    {[state |-> "absent", ids |-> {}], [state |-> "malformed", ids |-> {}]}
    \cup {[state |-> "ok", ids |-> ids] : ids \in SUBSET CommentIds}

RepairRels ==
    {[present |-> FALSE, targets |-> <<>>],
     [present |-> TRUE, targets |-> <<>>],
     [present |-> TRUE,
      targets |-> <<"styles.xml", "settings.xml", "/word/comments.xml", "fontTable.xml",
                    "webSettings.xml", "commentsExtended.xml", "commentsIds.xml",
                    "people.xml">>],
     [present |-> TRUE,
      targets |-> <<"styles.xml", "settings.xml", "comments.xml", "fontTable.xml",
                    "webSettings.xml">>],
     [present |-> TRUE,
      targets |-> <<"styles.xml", "settings.xml", "comments.xml", "fontTable.xml",
                    "webSettings.xml", "commentsExtended.xml", "commentsIds.xml",
                    "people.xml">>]}

RepairOverrides ==
    {[present |-> FALSE, parts |-> {}],
     [present |-> TRUE, parts |-> {"/word/document.xml", "/word/people.xml"}],
     [present |-> TRUE, parts |-> {"/word/document.xml"} \cup InfraOverrides]}

RepairSettings ==
    {[present |-> FALSE, trackRevisions |-> FALSE, rsids |-> FALSE]}
    \cup {[present |-> TRUE, trackRevisions |-> t, rsids |-> r] : t, r \in BOOLEAN}

RepairStyles ==
    {[present |-> FALSE, ids |-> {}],
     [present |-> TRUE, ids |-> {"Normal", "Rubrik1"}],
     [present |-> TRUE, ids |-> REQUIRED_STYLES \cup {"Rubrik1"}]}

\* the packages the repairer and the validator are tried on, and a file that
\* is no ZIP archive
RepairPackages ==
    {[zip_ok |-> z, comments |-> c, refs |-> r, text |-> BodyText, rels |-> l,
      overrides |-> o, infra |-> i, settings |-> s, styles |-> y] :
        z \in {TRUE}, c \in RepairComments, r \in Lists(CommentIds, MaxRefs),
        l \in RepairRels, o \in RepairOverrides,
        i \in {{}, {"people.xml"}, InfraParts},
        s \in RepairSettings, y \in RepairStyles}
    \cup {[zip_ok |-> FALSE, comments |-> [state |-> "absent", ids |-> {}], refs |-> <<>>,
           text |-> <<>>, rels |-> [present |-> FALSE, targets |-> <<>>],
           overrides |-> [present |-> FALSE, parts |-> {}], infra |-> {},
           settings |-> [present |-> FALSE, trackRevisions |-> FALSE, rsids |-> FALSE],
           styles |-> [present |-> FALSE, ids |-> {}]]}

\* the outcome of the stages so far: the exception that ended them, the
\* errors of the last validation, the number of repairs that wrote their
\* output, the package the first of them wrote (None before it), and the
\* stages whose scratch directory is still there
NoRepairOut ==
    [exc |-> "none", comment_errors |-> {}, other_errors |-> {}, repairs |-> 0,
     first |-> None, scratch |-> {}]

InitRepair ==
    /\ TextIdle
    /\ BatchIdle
    /\ stage = "final"
    /\ pkg \in RepairPackages
    /\ pkg0 = pkg
    /\ out = NoRepairOut

Validated(v, name, next_stage) ==
    /\ stage' = (IF v.exc = "none" THEN next_stage ELSE "raised")
    /\ out' = [out EXCEPT !.exc = v.exc,
                          !.comment_errors = v.comment_errors,
                          !.other_errors = v.other_errors,
                          !.scratch = IF v.scratch THEN @ \cup {name} ELSE @]
    /\ UNCHANGED <<textVars, batchVars, pkg, pkg0>>

\* DocxInternalValidator(final_path).validate() before the repair
ValidatePre ==
    /\ stage = "final"
    /\ \E v \in {validate(pkg)} : Validated(v, "validate_pre", "pre_validated")

RepairDone(r, name, next_stage) ==
    /\ stage' = (IF r.exc = "none" THEN next_stage ELSE "raised")
    /\ pkg' = r.pkg
    /\ out' = [out EXCEPT !.exc = r.exc,
                          !.repairs = IF r.exc = "none" THEN @ + 1 ELSE @,
                          !.first = IF r.exc = "none" /\ out.repairs = 0 THEN r.pkg ELSE @,
                          !.scratch = IF r.scratch THEN @ \cup {name} ELSE @]
    /\ UNCHANGED <<textVars, batchVars, pkg0>>

\* DocxXmlRepairer.repair on the package; the validator reports a style error
\* for every package, so the repair is always attempted
Repair ==
    /\ stage = "pre_validated"
    /\ (out.other_errors # {} \/ out.comment_errors # {})
    /\ \E r \in {repair(pkg)} : RepairDone(r, "repair", "repaired")

\* the validation of the repaired package
ValidatePost ==
    /\ stage = "repaired"
    /\ \E v \in {validate(pkg)} : Validated(v, "validate_post", "post_validated")

\* DocxXmlRepairer.repair on the output of a repair
RepairAgain ==
    /\ stage = "post_validated"
    /\ \E r \in {repair(pkg)} : RepairDone(r, "repair_again", "repaired_twice")

NextRepair == ValidatePre \/ Repair \/ ValidatePost \/ RepairAgain

SpecRepair == InitRepair /\ [][NextRepair]_vars

(***************************************************************************)
(* Properties of the repairer and the validator (SpecRepair)               *)
(***************************************************************************)

Targets(p) == {p.rels.targets[k] : k \in 1..Len(p.rels.targets)}

\* a reference of the body without a comment of its id
Dangling(p) ==
    {k \in 1..Len(p.refs) : p.comments.state # "ok" \/ p.refs[k] \notin p.comments.ids}

\* the package is valid and has all that the repairer injects: the comment
\* store, no dangling reference, the relationships to styles, settings,
\* comments, fonts and web settings, the extended comment parts with their
\* relationships and overrides, the base styles, the revision element and a
\* session-id pool
ValidPackage(p) ==
    /\ p.zip_ok
    /\ p.comments.state = "ok"
    /\ Dangling(p) = {}
    /\ p.rels.present
    /\ \A t \in RequiredTargets : \E u \in Targets(p) : names_target(u, t)
    /\ p.infra = InfraParts
    /\ InfraParts \subseteq Targets(p)
    /\ p.overrides.present
    /\ InfraOverrides \subseteq p.overrides.parts
    /\ p.settings.present /\ p.settings.trackRevisions /\ p.settings.rsids
    /\ p.styles.present
    /\ REQUIRED_STYLES \subseteq p.styles.ids

\* C13: repair is idempotent: the repair of an already valid package and the
\* repair of the output of a repair add and remove nothing, no relationship,
\* override, comment, style or settings entry, so that the second repair
\* writes the package the first one wrote.
C13_RepairIdempotent ==
    /\ stage = "repaired" /\ ValidPackage(pkg0) => pkg = pkg0
    /\ stage = "repaired_twice" => pkg = out.first

\* C14: for a package without a comment store, with or without comment
\* references in the body and with or without a session-id pool in the
\* settings, the repair completes, its output has a comment store and no
\* reference without a comment, and the validation of the output reports no
\* comment error.
C14_MissingCommentStoreRepaired ==
    pkg0.zip_ok /\ pkg0.comments.state = "absent" =>
        /\ stage # "raised"
        /\ stage \in {"repaired", "post_validated", "repaired_twice"} =>
               pkg.comments.state = "ok" /\ Dangling(pkg) = {}
        /\ stage = "post_validated" => out.comment_errors = {}

\* C15: the validation reports an error for every comment reference of the
\* body whose id has no comment in the comment store, also when other
\* comments are there and when the comment store is absent, and reports
\* nothing else about comments (no error for a comment without reference).
C15_EveryDanglingReferenceReported ==
    stage = "pre_validated" => out.comment_errors = Dangling(pkg0)

\* the names of the parts of a package
Parts(p) ==
    {"word/document.xml"}
    \cup (IF p.comments.state # "absent" THEN {"word/comments.xml"} ELSE {})
    \cup (IF p.rels.present THEN {"word/_rels/document.xml.rels"} ELSE {})
    \cup (IF p.overrides.present THEN {"[Content_Types].xml"} ELSE {})
    \cup (IF p.settings.present THEN {"word/settings.xml"} ELSE {})
    \cup (IF p.styles.present THEN {"word/styles.xml"} ELSE {})
    \cup p.infra

IsPrefix(s, t) == Len(s) <= Len(t) /\ \A k \in 1..Len(s) : s[k] = t[k]

\* the references of the body that have a comment of their id
DefinedRefs(p) ==
    SelectSeq(p.refs, LAMBDA id : p.comments.state = "ok" /\ id \in p.comments.ids)

C17_NoScratchDirectoryLeft ==
    stage \in {"tracked", "validated"} => out.scratch = {}

(***************************************************************************)
(* DocumentStructureExtractor: the unit map and the structure listing      *)
(***************************************************************************)

\* A document by the number of its units of each kind: body paragraphs,
\* paragraphs of the header and of the footer of the first section, text
\* boxes with text, and footnotes with text other than the separators.
UnitKinds == {"paragraph", "header", "footer", "textbox", "footnote"}

\* the id f"{kind}_{n}"
UnitId(kind, n) == [kind |-> kind, n |-> n]

\* the k-th unit of the kind in document order, counted from 1
Unit(kind, k) == [kind |-> kind, k |-> k]

\* elements[id] = unit
put(elements, id, unit) ==
    [x \in DOMAIN elements \cup {id} |-> IF x = id THEN unit ELSE elements[x]]

NoElements == [x \in {} |-> Unit("paragraph", 0)]

\* for i, unit in enumerate(units): elements[f"{kind}_{i+1}"] = unit
RECURSIVE put_enumerated(_, _, _, _)
put_enumerated(elements, kind, i, count) ==
    IF i >= count THEN elements
    ELSE put_enumerated(put(elements, UnitId(kind, i + 1), Unit(kind, i + 1)),
                        kind, i + 1, count)

\* the value of the loop variable i when the footer loop is reached: the last
\* index of the header loop, else of the paragraph loop; -1 stands for a name
\* that was never bound
i_before_footers(shape) ==
    IF shape.header > 0 THEN shape.header - 1
    ELSE IF shape.paragraph > 0 THEN shape.paragraph - 1
    ELSE -1

\* for fi, para in enumerate(footer.paragraphs): elements[f"footer_{i+1}"] = para
RECURSIVE put_footers(_, _, _, _)
put_footers(elements, i, fi, count) ==
    IF fi >= count THEN elements
    ELSE put_footers(put(elements, UnitId("footer", i + 1), Unit("footer", fi + 1)),
                     i, fi + 1, count)

\* DocumentStructureExtractor._extract_docx_elements (tables aside):
\* [exc, elements]
extract_docx_elements_of(shape) ==
    IF shape.footer > 0 /\ i_before_footers(shape) < 0
    THEN [exc |-> "UnboundLocalError", elements |-> NoElements]
    ELSE [exc |-> "none",
          elements |->
              put_enumerated(
                  put_enumerated(
                      put_footers(
                          put_enumerated(
                              put_enumerated(NoElements, "paragraph", 0, shape.paragraph),
                              "header", 0, shape.header),
                          i_before_footers(shape), 0, shape.footer),
                      "textbox", 0, shape.textbox),
                  "footnote", 0, shape.footnote)]

\* DocumentStructureExtractor._extract_docx_texts (tables aside): the unit
\* published under each element_id of the listing
extract_docx_texts(shape) ==
    put_enumerated(
        put_enumerated(
            put_enumerated(
                put_enumerated(
                    put_enumerated(NoElements, "paragraph", 0, shape.paragraph),
                    "header", 0, shape.header),
                "footer", 0, shape.footer),
            "textbox", 0, shape.textbox),
        "footnote", 0, shape.footnote)

MaxUnits == 2

\* python-docx gives the header and the footer of the first section at least
\* the one paragraph of its default part
Shapes ==
    {[paragraph |-> p, header |-> h, footer |-> f, textbox |-> t, footnote |-> n] :
        p \in 0..MaxUnits, h \in 1..MaxUnits, f \in 1..MaxUnits,
        t \in 0..MaxUnits, n \in 0..MaxUnits}

NoExtract == [exc |-> "none", elements |-> NoElements, listing |-> NoElements]

InitExtract ==
    /\ TextIdle
    /\ BatchIdle
    /\ stage = "document"
    /\ pkg \in Shapes
    /\ pkg0 = pkg
    /\ out = NoExtract

\* DocumentStructureExtractor.extract: the listing handed to the suggestor
ExtractTexts ==
    /\ stage = "document"
    /\ stage' = "listed"
    /\ out' = [out EXCEPT !.listing = extract_docx_texts(pkg)]
    /\ UNCHANGED <<textVars, batchVars, pkg, pkg0>>

\* the editor's call of _extract_docx_elements on the same document
ExtractElements ==
    /\ stage = "listed"
    /\ \E r \in {extract_docx_elements_of(pkg)} :
           /\ stage' = (IF r.exc = "none" THEN "mapped" ELSE "raised")
           /\ out' = [out EXCEPT !.exc = r.exc, !.elements = r.elements]
    /\ UNCHANGED <<textVars, batchVars, pkg, pkg0>>

NextExtract == ExtractTexts \/ ExtractElements

SpecExtract == InitExtract /\ [][NextExtract]_vars

(***************************************************************************)
(* Properties of the unit map (SpecExtract)                                *)
(***************************************************************************)

\* C18: the unit map has one id for each unit, and for every kind the id
\* "<kind>_<n>" maps to the n-th unit of that kind in document order, counted
\* from 1, which is the unit the structure listing publishes under that id.
C18_UnitMapIdsByKindAndOrder ==
    stage = "mapped" =>
        /\ DOMAIN out.elements = DOMAIN out.listing
        /\ \A id \in DOMAIN out.elements : id.kind \in UnitKinds
        /\ \A id \in DOMAIN out.listing :
               /\ id \in DOMAIN out.elements
               /\ out.elements[id] = Unit(id.kind, id.n)
               /\ out.elements[id] = out.listing[id]

(***************************************************************************)
(* Properties of the second pass and of changes on one unit (Spec)         *)
(***************************************************************************)

\* the positions in the change list of the changes the first pass queued
QueuedIdx ==
    {footnote_changes[k].idx : k \in 1..Len(footnote_changes)}
    \cup {textbox_changes[k].idx : k \in 1..Len(textbox_changes)}

\* C19: every footnote or text-box change queued by the first pass has been
\* taken up by the pass over its XML part when the document is delivered, on
\* every route that delivers a .docx: it was patched into the part or turned
\* down with a message, never left as it was queued.
C19_QueuedChangesProcessedBeforeDelivery ==
    delivered # "none" => \A i \in QueuedIdx : i \in applied_idx \/ i \in reported

\* a run of the runs is struck out in red (green) and holds the text
HasDeletedSpan(runs, text) ==
    \E k \in 1..Len(runs) :
        runs[k].strike /\ runs[k].color = "FF0000" /\ Contains(text, runs[k].text)

HasInsertedSpan(runs, text) ==
    \E k \in 1..Len(runs) :
        ~runs[k].strike /\ runs[k].color = "008000" /\ Contains(text, runs[k].text)

FirstParagraphId == ParagraphPrefix \o str_int(1)

\* C20: changes that target the same unit are composed in the order of the
\* list: once a later change has been applied to the paragraph, the paragraph
\* still carries the Deleted span (old text, struck out) and the Inserted span
\* (new text) of each earlier change applied to it.
C20_EarlierSpansKept ==
    \A i, j \in applied_idx :
        (/\ i < j
         /\ changes[i].element_id = FirstParagraphId
         /\ changes[j].element_id = FirstParagraphId)
        => /\ HasDeletedSpan(doc.paragraphs[1], changes[i].old)
           /\ HasInsertedSpan(doc.paragraphs[1], changes[i].new)

(***************************************************************************)
(* One change on a paragraph whose runs carry references                   *)
(***************************************************************************)

\* a run that holds the w:footnoteReference of footnote id and no text
FootnoteRefRun(id) == [Run(<<>>, "", FALSE, TRUE) EXCEPT !.id = id]

\* a run that holds the w:commentReference of comment id and no text
\* (the anchor of a comment the document already had)
CommentRefRun(id) == [PlainRun(<<>>) EXCEPT !.commentReference = TRUE, !.id = id]

MaxRuns == 3

\* the runs a paragraph is made of here
UnitRuns ==
    {PlainRun(<<"a", "b", " ">>), PlainRun(<<"c", "d">>), PlainRun(<<" ">>),
     FootnoteRefRun(1), FootnoteRefRun(2), CommentRefRun(3)}

\* the changes tried on the paragraph
RunChanges ==
    {[old |-> o, new |-> n] :
        o \in {<<"a", "b">>, <<"c", "d">>, <<"a", "b", " ", "c", "d">>, <<"x", "y", "z", "w">>},
        n \in {<<"e", "f">>, <<>>, <<"c", "d", " ", "e">>}}

InitRuns ==
    /\ BatchIdle
    /\ PkgIdle
    /\ \E rs \in Lists(UnitRuns, MaxRuns) \ {<<>>}, c \in RunChanges :
          /\ phase = "runs"
          /\ unit_runs = rs
          /\ runs0 = rs
          /\ old = c.old
          /\ new = c.new
          /\ res = NoResult

\* the paragraph branch of _edit_docx for the change (old, new) on a
\* paragraph of several runs
RebuildRuns ==
    /\ phase = "runs"
    /\ \E r \in {edit_paragraph(unit_runs, old, new)} :
          /\ res' = [outcome |-> r.outcome, updated_text |-> r.updated_text,
                     diffed |-> r.diffed]
          /\ unit_runs' = r.runs
    /\ phase' = "rebuilt"
    /\ UNCHANGED <<runs0, old, new, batchVars, pkgVars>>

NextRuns == RebuildRuns

SpecRuns == InitRuns /\ [][NextRuns]_vars

\* the positions of the runs that hold a footnote reference, in order
RefPositions(runs) ==
    LET idx == {i \in 1..Len(runs) : runs[i].ref}
        RECURSIVE sorted(_, _)
        sorted(S, acc) == IF S = {} THEN acc
                          ELSE sorted(S \ {SetMin(S)}, Append(acc, SetMin(S)))
    IN  sorted(idx, <<>>)

\* the number of characters of paragraph text before run i
OffsetOf(runs, i) == Len(paragraph_text(SubSeq(runs, 1, i - 1)))

\* the baseline characters (Unchanged and Deleted text) of the runs before
\* run j of a rebuilt paragraph
BaselineBefore(runs, j) ==
    Len(paragraph_text(SelectSeq(SubSeq(runs, 1, j - 1),
                                 LAMBDA r : ~r.ref /\ r.color # "008000")))

\* the reference at position j of the rebuilt runs, captured at offset o, sits
\* where the baseline characters first reach o, or at the end
PlacedWhenReached(o, runs, j) ==
    LET spans == {i \in 1..(j - 1) : ~runs[i].ref}
    IN  \/ /\ o <= BaselineBefore(runs, j)
           /\ spans # {} => BaselineBefore(runs, SetMax(spans)) < o
        \/ /\ o > BaselineBefore(runs, Len(runs) + 1)
           /\ \A i \in (j + 1)..Len(runs) : runs[i].ref

Rebuilt == phase = "rebuilt" /\ res.outcome # "no_match"

\* C21: after a change is applied to a paragraph, the runs that hold a
\* footnote reference are the captured ones, each once and in their original
\* order, and each sits right after the span with which the Unchanged and
\* Deleted characters emitted first reach its original offset (before all
\* text for offset 0, at the end when the offset is never reached).
C21_FootnoteReferencesKeptInPlace ==
    Rebuilt =>
        /\ SelectSeq(unit_runs, LAMBDA r : r.ref) = SelectSeq(runs0, LAMBDA r : r.ref)
        /\ \A k \in 1..Len(RefPositions(runs0)) :
              PlacedWhenReached(OffsetOf(runs0, RefPositions(runs0)[k]),
                                unit_runs, RefPositions(unit_runs)[k])

\* a paragraph with a reference before all text and one inside the text got
\* a change applied, and a Deleted span and the second reference follow the
\* first one
C21_Witness ==
    /\ Rebuilt
    /\ Len(RefPositions(runs0)) = 2
    /\ runs0[1].ref
    /\ unit_runs[1] = runs0[1]
    /\ OffsetOf(runs0, RefPositions(runs0)[2]) = 3
    /\ RefPositions(unit_runs)[2] > 2
    /\ \E i \in 1..Len(unit_runs) : unit_runs[i].strike
    /\ unit_runs[RefPositions(unit_runs)[2]].id # runs0[1].id

\* C22: after a change is applied to a unit, every run that held a comment
\* reference before the change is still among the runs of the unit.
C22_CommentReferencesKept ==
    Rebuilt =>
        \A i \in 1..Len(runs0) :
            runs0[i].commentReference =>
                \E j \in 1..Len(unit_runs) : unit_runs[j] = runs0[i]

\* the revision elements of a list of nodes, at any depth
RECURSIVE Wrappers(_)
Wrappers(nodes) ==
    UNION {IF nodes[k].tag = "r" THEN {}
           ELSE {nodes[k]} \cup Wrappers(nodes[k].kids) : k \in 1..Len(nodes)}

\* C23: the comment reference of a run that the conversion replaces by a
\* revision element is kept: a run that holds only that reference follows the
\* new revision element directly, and no w:ins or w:del holds a comment
\* reference, with motivations enabled or not.
C23_CommentReferenceAfterWrapper ==
    stage \in {"tracked", "validated"} =>
        /\ \A i \in 1..Len(pkg0.body[1]) :
              (/\ pkg0.body[1][i].tag = "r"
               /\ converts(pkg0.body[1][i])
               /\ pkg0.body[1][i].commentReference # 0)
              => \E j \in 1..(Len(pkg.body[1]) - 1) :
                    /\ pkg.body[1][j].tag \in {"ins", "del"}
                    /\ pkg.body[1][j].id > 0
                    /\ pkg.body[1][j].kids[1].t = wrapper_text(pkg0.body[1][i].t)
                    /\ IsRefRun(pkg.body[1][j + 1])
                    /\ pkg.body[1][j + 1].commentReference = pkg0.body[1][i].commentReference
        /\ \A w \in Wrappers(pkg.body[1]) :
              \A k \in 1..Len(w.kids) : w.kids[k].commentReference = 0

(***************************************************************************)
(* DocxTrackedChangesEditor.apply_changes after the conversion             *)
(***************************************************************************)

\* the packages _convert_markup_to_tracked writes: a ZIP archive whose parts
\* are well-formed, with styles.xml patched or injected and a settings.xml
\* that holds w:trackRevisions and the injected w:rsids
ConvertedPackages ==
    {p \in RepairPackages :
        /\ p.zip_ok
        /\ p.comments.state # "malformed"
        /\ p.settings = [present |-> TRUE, trackRevisions |-> TRUE, rsids |-> TRUE]
        /\ p.styles.present}

\* what apply_changes has done: the exception that ended it, whether the
\* validations reported errors, the steps run in order, and whether it
\* returned self.doc
NoPipelineOut ==
    [exc |-> "none", errors_pre |-> FALSE, errors_post |-> FALSE, steps |-> <<>>,
     returned |-> FALSE]

InitPipeline ==
    /\ TextIdle
    /\ BatchIdle
    /\ stage = "converted"
    /\ pkg \in ConvertedPackages
    /\ pkg0 = pkg
    /\ out = NoPipelineOut

has_errors(v) == v.other_errors # {} \/ v.comment_errors # {}

\* validator_pre.validate() and the logging of errors_pre
ValidateBeforeRepair ==
    /\ stage = "converted"
    /\ \E v \in {validate(pkg)} :
          /\ stage' = (IF v.exc = "none" THEN "pre_validated" ELSE "raised")
          /\ out' = [out EXCEPT !.exc = v.exc,
                                !.errors_pre = has_errors(v),
                                !.steps = Append(@, "validate")]
    /\ UNCHANGED <<textVars, batchVars, pkg, pkg0>>

\* AutoDocxRepairer.repair: the repair by DocxXmlRepairer and the validation
\* of its output, whose errors are logged
auto_repair(r, v) ==
    IF r.exc # "none" THEN [exc |-> r.exc, pkg |-> r.pkg, steps |-> <<"repair">>]
    ELSE [exc |-> v.exc, pkg |-> r.pkg, steps |-> <<"repair", "validate">>]

\* repairer.repair(final_path), entered when errors_pre is not empty
\* (INTERNAL_REPAIR_ON is True)
AutoRepair ==
    /\ stage = "pre_validated"
    /\ out.errors_pre
    /\ \E r \in {repair(pkg)} :
          \E a \in {auto_repair(r, validate(r.pkg))} :
              /\ stage' = (IF a.exc = "none" THEN "repaired" ELSE "raised")
              /\ pkg' = a.pkg
              /\ out' = [out EXCEPT !.exc = a.exc, !.steps = @ \o a.steps]
    /\ UNCHANGED <<textVars, batchVars, pkg0>>

\* validator_post.validate() and the logging of errors_post
ValidateAfterRepair ==
    /\ stage = "repaired"
    /\ \E v \in {validate(pkg)} :
          /\ stage' = (IF v.exc = "none" THEN "post_validated" ELSE "raised")
          /\ out' = [out EXCEPT !.exc = v.exc,
                                !.errors_post = has_errors(v),
                                !.steps = Append(@, "validate")]
    /\ UNCHANGED <<textVars, batchVars, pkg, pkg0>>

\* a pipeline that holds the document back while errors remain
ReturnDocumentIfClean ==
    /\ \/ stage = "post_validated" /\ ~out.errors_post
       \/ stage = "pre_validated" /\ ~out.errors_pre
    /\ stage' = "returned"
    /\ out' = [out EXCEPT !.returned = TRUE]
    /\ UNCHANGED <<textVars, batchVars, pkg, pkg0>>

\* self.doc = docx.Document(repaired_path), the quality-control report, and
\* return self.doc; without errors_pre the converted package is the one read
ReturnDocument ==
    /\ \/ stage = "post_validated"
       \/ stage = "pre_validated" /\ ~out.errors_pre
    /\ stage' = "returned"
    /\ out' = [out EXCEPT !.returned = TRUE]
    /\ UNCHANGED <<textVars, batchVars, pkg, pkg0>>

NextPipeline == ValidateBeforeRepair \/ AutoRepair \/ ValidateAfterRepair \/ ReturnDocument

SpecPipeline == InitPipeline /\ [][NextPipeline]_vars

\* apply_changes runs to its end: no step waits for anything
SpecPipelineLive == SpecPipeline /\ WF_vars(NextPipeline)

\* the number of repairs among the steps
Repairs(steps) == Cardinality({k \in 1..Len(steps) : steps[k] = "repair"})

PipelineAsStated ==
    /\ stage # "raised"
    /\ Repairs(out.steps) <= 1
    /\ Repairs(out.steps) = 1 => out.errors_pre
    /\ out.steps # <<>> => out.steps[1] = "validate"
    /\ stage = "returned" =>
          /\ out.returned
          /\ out.errors_pre => /\ Repairs(out.steps) = 1
                               /\ out.steps[Len(out.steps)] = "validate"
                               /\ Len(out.steps) > 2

QueuedFor(word) == {i \in QueuedIdx : startswith(changes[i].element_id, word)}

\* the first queued change for the footnote (text box) meets the unit as the
\* input document has it
MatchesAsParagraph(text, change) == resolve(text, or_empty(change.old)) # "no_match"

FirstQueuedAsStated(word, text) ==
    QueuedFor(word) # {} =>
        LET i == SetMin(QueuedFor(word))
        IN  /\ i \in applied_idx => MatchesAsParagraph(text, changes[i])
            /\ (delivered # "none" /\ ~MatchesAsParagraph(text, changes[i]))
               => i \in reported

\* C25: a queued footnote or text-box change is patched into its unit only
\* when its old text matches the text of the unit by the rule of the
\* paragraph branch (normalized substring, else a similarity of at least 90),
\* and a change that does not match is reported and changes nothing.
C25_SecondPassAppliesOnlyMatches ==
    /\ FirstQueuedAsStated(FootnoteWord, paragraph_text(InputDoc.footnotes[1].runs))
    /\ FirstQueuedAsStated(TextboxWord, paragraph_text(InputDoc.textboxes[1]))

(***************************************************************************)
(* Relationship ids after the repair (SpecRepair)                          *)
(***************************************************************************)

\* the Id the repairer gives the Relationship it adds for a target
added_relationship_id(target) ==
    IF target = "comments.xml" THEN "rIdComments"
    ELSE IF target = "commentsExtended.xml" THEN "rIdExt"
    ELSE IF target = "commentsIds.xml" THEN "rIdIds"
    ELSE "rIdPeople"

\* the Id attributes of document.xml.rels after the repair of p0 gave p: the
\* relationships of the input come first and keep their ids (rId1, rId2, ...
\* here, written as their positions), the added ones have the ids above
relationship_ids(p0, p) ==
    [k \in 1..Len(p.rels.targets) |->
        IF k <= Len(p0.rels.targets) THEN <<"rId", k>>
        ELSE <<added_relationship_id(p.rels.targets[k]), 0>>]

\* C26: after DocxXmlRepairer.repair the Ids of the relationships of
\* document.xml.rels are pairwise distinct and at most one relationship
\* targets comments.xml, also for a package that had no relationship to
\* comments.xml.
C26_RelationshipIdsDistinct ==
    (stage = "repaired" /\ pkg.rels.present) =>
        /\ \A j, k \in 1..Len(pkg.rels.targets) :
              j # k => relationship_ids(pkg0, pkg)[j] # relationship_ids(pkg0, pkg)[k]
        /\ Cardinality({k \in 1..Len(pkg.rels.targets) :
                           names_comments(pkg.rels.targets[k])}) <= 1

\* the text of a unit with the markup rejected: the Unchanged and Deleted
\* runs, the Inserted (green) ones left out
RejectedText(runs) == paragraph_text(SelectSeq(runs, LAMBDA r : r.color # "008000"))

\* the positions of the applied changes that name the unit
AppliedTo(element_id) == {i \in applied_idx : changes[i].element_id = element_id}

RejectRecovers(element_id, runs, runs_before) ==
    Cardinality(AppliedTo(element_id)) = 1 =>
        normalize_text(RejectedText(runs)) = normalize_text(paragraph_text(runs_before))

\* C27: once one change has been applied to a unit (paragraph, paragraph of a
\* table cell, text box), the Unchanged and Deleted runs of the unit together
\* hold the text the unit had before, whitespace aside: no text outside the
\* matched old text is lost.
C27_RejectRecoversOriginal ==
    /\ RejectRecovers(FirstParagraphId, doc.paragraphs[1], InputDoc.paragraphs[1])
    /\ RejectRecovers(CellPrefix \o str_int(1), doc.cells[1][1], InputDoc.cells[1][1])
    /\ RejectRecovers(TextboxPrefix \o str_int(1), doc.textboxes[1], InputDoc.textboxes[1])

(***************************************************************************)
(* The conversion of touched and untouched paragraphs                      *)
(***************************************************************************)

\* the runs _edit_docx adds to a paragraph it rebuilds: Unchanged, Deleted
\* and Inserted spans
AppliedRuns == {XRun(FALSE, "", FALSE, <<"x", " ">>, 0), RedStrikeRun, GreenRun}

\* the interim documents by what the markup applier did: touched says that a
\* change was applied to the paragraph, whose runs are then the spans the
\* applier added; the runs of an untouched paragraph are those of the input
\* document, whatever their formatting
InterimPackages ==
    {p \in {[body |-> <<nodes>>, trackRevisions |-> "on", include_motivations |-> m,
             touched |-> t] :
                nodes \in Lists(ConvRuns, MaxNodes) \ {<<>>}, m \in BOOLEAN, t \in BOOLEAN} :
        p.touched => \A k \in 1..Len(p.body[1]) : p.body[1][k] \in AppliedRuns}

InitInterim ==
    /\ TextIdle
    /\ BatchIdle
    /\ stage = "interim"
    /\ pkg \in InterimPackages
    /\ pkg0 = pkg
    /\ out = NoOut

SpecInterim == InitInterim /\ [][NextConvert]_vars

\* C28: the conversion makes a revision only of a run the markup applier
\* emitted as a Deleted or Inserted span: in a paragraph no change touched no
\* run is converted, even one the input document had formatted green or red
\* and struck out.
C28_OnlyAppliedSpansConverted ==
    stage \in {"tracked", "validated"} =>
        (NewWrappers(pkg.body[1], "ins") + NewWrappers(pkg.body[1], "del") > 0
            => pkg0.touched)

(***************************************************************************)
(* The line numbers of the text blocks of a PDF page                       *)
(***************************************************************************)

\* sorted(blocks, key): the positions of the blocks in the order of their
\* keys, blocks with equal keys in the order get_text("blocks") gave them
RECURSIVE sorted_positions(_, _, _)
sorted_positions(keys, rest, acc) ==
    IF rest = {} THEN acc
    ELSE LET least == SetMin({keys[k] : k \in rest})
             first == SetMin({k \in rest : keys[k] = least})
         IN  sorted_positions(keys, rest \ {first}, Append(acc, first))

sorted(blocks, key(_)) ==
    sorted_positions([k \in 1..Len(blocks) |-> key(blocks[k])], 1..Len(blocks), <<>>)

\* the (line number, block) pairs of the blocks whose stripped text is not
\* empty; i + 1 counts every block of the sorted list
numbered_lines(blocks, order) ==
    {[line |-> i, block |-> order[i]] : i \in {j \in 1..Len(order) : blocks[order[j]].text}}

\* _extract_pdf: the blocks sorted by key -b[1]
extract_pdf_lines(blocks) == numbered_lines(blocks, sorted(blocks, LAMBDA b : 0 - b.y0))

\* _annotate_pdf: the blocks sorted by key b[1]
annotate_pdf_lines(blocks) == numbered_lines(blocks, sorted(blocks, LAMBDA b : b.y0))

MaxBlocks == 3

MaxY == 3

\* the blocks of a page as get_text("blocks") returns them: y0 is b[1], the
\* top edge, and text says that b[4].strip() is not empty
PdfPages == Lists({[y0 |-> y, text |-> t] : y \in 1..MaxY, t \in BOOLEAN}, MaxBlocks)

NoLines == [extracted |-> {}, annotated |-> {}]

InitPdf ==
    /\ TextIdle
    /\ BatchIdle
    /\ stage = "page"
    /\ pkg \in PdfPages
    /\ pkg0 = pkg
    /\ out = NoLines

\* DocumentStructureExtractor._extract_pdf on the page
ExtractPdf ==
    /\ stage = "page"
    /\ stage' = "extracted"
    /\ out' = [out EXCEPT !.extracted = extract_pdf_lines(pkg)]
    /\ UNCHANGED <<textVars, batchVars, pkg, pkg0>>

\* the line numbering of JBGDocumentEditor._annotate_pdf on the same page
AnnotatePdf ==
    /\ stage = "extracted"
    /\ stage' = "annotated"
    /\ out' = [out EXCEPT !.annotated = annotate_pdf_lines(pkg)]
    /\ UNCHANGED <<textVars, batchVars, pkg, pkg0>>

NextPdf == ExtractPdf \/ AnnotatePdf

SpecPdf == InitPdf /\ [][NextPdf]_vars

\* C29: on every page the line number under which _extract_pdf publishes a
\* text block is the line number _annotate_pdf gives that block.
C29_PdfLineNumbersAgree ==
    stage = "annotated" => out.extracted = out.annotated

(***************************************************************************)
(* main.py: the job an upload registers and its background task            *)
(***************************************************************************)

START_EDITABLE == "<!-- START_EDITABLE -->"

END_EDITABLE == "<!-- END_EDITABLE -->"

START_LOCKED == "<!-- START_LOCKED -->"

END_LOCKED == "<!-- END_LOCKED -->"

\* validate_prompt.forbidden_tags, and the markers load_prompt_parts removes
forbidden_tags == {START_EDITABLE, END_EDITABLE, START_LOCKED, END_LOCKED}

\* a call that raises, and a call that returns
Raised(e) == <<"raised", e>>

Returned(v) == <<"returned", v>>

\* content.find(tag) on a text given as the sequence of its pieces
find_piece(content, tag) ==
    IF \E i \in 1..Len(content) : content[i] = tag
    THEN SetMin({i \in 1..Len(content) : content[i] = tag})
    ELSE 0 - 1

without_markers(content) == SelectSeq(content, LAMBDA piece : piece \notin forbidden_tags)

\* load_prompt_parts: open() raises on a missing file, ValueError on missing
\* markers, else the locked text before and after the editable part
load_prompt_parts(policy) ==
    IF policy = None THEN Raised("FileNotFoundError")
    ELSE LET start_edit == find_piece(policy, START_EDITABLE)
             end_edit == find_piece(policy, END_EDITABLE)
         IN  IF start_edit = 0 - 1 \/ end_edit = 0 - 1
             THEN Raised("ValueError")
             ELSE Returned([locked_before |-> without_markers(SubSeq(policy, 1, start_edit - 1)),
                            locked_after |-> without_markers(SubSeq(policy, end_edit + 1, Len(policy)))])

\* validate_prompt: ValueError when a forbidden tag is in the prompt
validate_prompt(full_prompt) ==
    IF \E i \in 1..Len(full_prompt) : full_prompt[i] \in forbidden_tags
    THEN Raised("ValueError")
    ELSE Returned(TRUE)

MaxPromptLen == 2

\* the prompt_policy.md on disk: the shipped layout, one without the editable
\* markers, and no file
Policies ==
    {<<START_LOCKED, "rules", END_LOCKED, START_EDITABLE, "style", END_EDITABLE, START_LOCKED, "format", END_LOCKED>>,
     <<START_LOCKED, "rules", END_LOCKED>>,
     None}

\* a request: the editable_prompt form field, whether input_path can be
\* opened for writing, the policy file, and what JBGLanguageImprover.run and
\* shutil.move do in the background task
Requests ==
    [editable_prompt : Lists({"text", START_EDITABLE, END_LOCKED}, MaxPromptLen),
     save_ok : BOOLEAN,
     policy : Policies,
     run : {"result", "run raises", "move raises"}]

\* jobs_lang holds at most the job of the one request, under job id 1
JobId == 1

NoJob == [jobs_lang |-> <<>>, task |-> FALSE, result_file |-> FALSE, raised |-> <<>>, response |-> <<>>]

InitUpload ==
    /\ TextIdle
    /\ BatchIdle
    /\ stage = "request"
    /\ pkg \in Requests
    /\ pkg0 = pkg
    /\ out = NoJob

\* jobs_lang[job_id] as upload_file registers it
registered_job == [status |-> "Fil uppladdad. Bearbetar dokument...", done |-> FALSE, error |-> None]

\* upload_file after the registration: the first call that raises ends the
\* handler, else the background task is added
upload_outcome(request) ==
    IF ~request.save_ok THEN Raised("OSError")
    ELSE LET parts == load_prompt_parts(request.policy)
         IN  IF parts[1] = "raised" THEN parts
             ELSE LET checked == validate_prompt(parts[2].locked_before \o request.editable_prompt
                                                 \o parts[2].locked_after)
                  IN  IF checked[1] = "raised" THEN checked ELSE Returned("job_id")

\* upload_file
UploadFile ==
    /\ stage = "request"
    /\ stage' = "responded"
    /\ \E r \in {upload_outcome(pkg)} :
          out' = [out EXCEPT !.jobs_lang = <<registered_job>>,
                             !.task = (r[1] = "returned"),
                             !.raised = IF r[1] = "raised" THEN <<r[2]>> ELSE <<>>]
    /\ UNCHANGED <<textVars, batchVars, pkg, pkg0>>

\* run_language_improvement, the task upload_file added
RunLanguageImprovement ==
    /\ stage = "responded"
    /\ out.task
    /\ stage' = "ran"
    /\ out' = [out EXCEPT
                 !.jobs_lang[JobId] =
                     IF pkg.run = "result"
                     THEN [out.jobs_lang[JobId] EXCEPT !.done = TRUE, !.error = None]
                     ELSE [status |-> "Ett fel uppstod vid spraakgranskningen.",
                           done |-> TRUE, error |-> <<"str", pkg.run>>],
                 !.result_file = (pkg.run = "result")]
    /\ UNCHANGED <<textVars, batchVars, pkg, pkg0>>

\* the answer of check_status for a job in the store
check_status(job, result_file) ==
    IF job.error # None THEN [code |-> 500, done |-> TRUE]
    ELSE IF ~job.done THEN [code |-> 202, done |-> FALSE]
    ELSE IF ~result_file THEN [code |-> 500, done |-> TRUE]
    ELSE [code |-> 200, done |-> TRUE]

\* a client polls /status/{job_id}
CheckStatus ==
    /\ stage \in {"responded", "ran"}
    /\ out' = [out EXCEPT !.response = <<check_status(out.jobs_lang[JobId], out.result_file)>>]
    /\ UNCHANGED <<textVars, batchVars, stage, pkg, pkg0>>

NextUpload == UploadFile \/ RunLanguageImprovement \/ CheckStatus

SpecUpload == InitUpload /\ [][NextUpload]_vars

\* the handler runs to its end, and the server runs every task it was given
SpecUploadLive == SpecUpload /\ WF_vars(UploadFile) /\ WF_vars(RunLanguageImprovement)

JobRegistered == JobId \in DOMAIN out.jobs_lang

JobDone == JobRegistered /\ out.jobs_lang[JobId].done

\* C30: every job upload_file registers eventually has done = TRUE, with a
\* result file or a recorded error, also when saving the upload, loading the
\* policy or validating the prompt raises; and a done job stays done.
C30_RegisteredJobEventuallyDone ==
    /\ JobRegistered ~> (JobDone /\ (out.result_file \/ out.jobs_lang[JobId].error # None))
    /\ [][JobDone => JobDone']_vars

\* the half of C30 that does not depend on the handler finishing
C30_DoneStaysDone == [][JobDone => JobDone']_vars

====
